---- MODULE Spec2Model ----
(***************************************************************************)
(* A model of the scheduling engine of wopr-plugin-cron: the tick loop     *)
(* (createCronTickLoop), the schedule matcher (parseCronSchedule,          *)
(* shouldRunCron), the script pipeline and the template resolver, together *)
(* with the job store and the run history they work on.                    *)
(*                                                                         *)
(* Strings the code takes apart (schedules, messages, script output) are   *)
(* sequences of one-character strings.  Times are milliseconds, counted    *)
(* from the local midnight of day OriginDay since the Unix epoch, so that  *)
(* they fit TLC's integers; the minute bucket and the calendar fields are  *)
(* computed for the absolute time, the local time zone taken as UTC.  The  *)
(* history variables firings and ended record what the tick loop did; no   *)
(* action reads them.                                                      *)
(***************************************************************************)
EXTENDS Integers, Sequences, FiniteSets, TLC

----------------------------------------------------------------------------
(* Bounds of the model *)

\* the number of timer firings (30 s each) after start-up
MaxTimerFirings == 11
\* the number of tick invocations that may be in progress together
MaxInFlight == 2
\* the number of timer firings a call of the storage may stay pending
MaxStoreLatency == 0

----------------------------------------------------------------------------
(* Strings as sequences of characters *)

Digits == <<"0", "1", "2", "3", "4", "5", "6", "7", "8", "9">>

IsDigit(c) == \E d \in 1..10 : Digits[d] = c

DigitVal(c) == (CHOOSE d \in 1..10 : Digits[d] = c) - 1

\* s.startsWith(p)
StartsWith(s, p) == Len(s) >= Len(p) /\ SubSeq(s, 1, Len(p)) = p

\* s.includes(c) for a single character c
Includes(s, c) == \E k \in 1..Len(s) : s[k] = c

\* the first position at or after from where p occurs in s, 0 when none
IndexOf(s, p, from) ==
  IF \E k \in from..(Len(s) - Len(p) + 1) : SubSeq(s, k, k + Len(p) - 1) = p
  THEN CHOOSE k \in from..(Len(s) - Len(p) + 1) :
         /\ SubSeq(s, k, k + Len(p) - 1) = p
         /\ \A h \in from..(k - 1) : SubSeq(s, h, h + Len(p) - 1) # p
  ELSE 0

\* the pieces of s between the occurrences of p, found left to right without
\* overlap
SplitOf(s, p) ==
  LET pieces[k \in 1..(Len(s) + 1)] ==
        CHOOSE r \in {IF at = 0 THEN <<SubSeq(s, k, Len(s))>>
                      ELSE <<SubSeq(s, k, at - 1)>> \o pieces[at + Len(p)] :
                        at \in {IndexOf(s, p, k)}} : TRUE
  IN  pieces[1]

\* s.split(p) for a non-empty separator p (the arguments are evaluated once)
Split(str, sep) == CHOOSE r \in {SplitOf(s, p) : s \in {str}, p \in {sep}} : TRUE

JoinOf(parts, sep) ==
  LET joined[k \in 0..Len(parts)] ==
        IF k = 0 THEN <<>>
        ELSE IF k = 1 THEN parts[1]
        ELSE joined[k - 1] \o sep \o parts[k]
  IN  joined[Len(parts)]

\* parts.join(sep) (the arguments are evaluated once)
Join(list, sep) == CHOOSE r \in {JoinOf(l, p) : l \in {list}, p \in {sep}} : TRUE

\* NaN, and every number below zero: each use rejects both alike
NaN == 0 - 1

\* the value of a string of digits
DigitsValue(s) ==
  LET val[k \in 0..Len(s)] == IF k = 0 THEN 0 ELSE 10 * val[k - 1] + DigitVal(s[k])
  IN  val[Len(s)]

\* the longest prefix of s made of digits
DigitPrefix(s) ==
  LET n == CHOOSE k \in 0..Len(s) :
             /\ \A m \in 1..k : IsDigit(s[m])
             /\ k < Len(s) => ~IsDigit(s[k + 1])
  IN  SubSeq(s, 1, n)

\* whether s begins with a sign
Signed(s) == s # <<>> /\ s[1] \in {"+", "-"}

\* s without its sign
Unsigned(s) == IF Signed(s) THEN Tail(s) ELSE s

\* the number with the sign of s and the magnitude value
WithSign(s, value) == IF Signed(s) /\ s[1] = "-" /\ value > 0 THEN NaN ELSE value

\* parseInt(s, 10): an optional sign and the leading digits, NaN when there
\* is no digit
ParseInt(s) ==
  CHOOSE r \in {IF prefix = <<>> THEN NaN ELSE WithSign(s, DigitsValue(prefix)) :
                  prefix \in {DigitPrefix(Unsigned(s))}} : TRUE

\* Number(s): the whole string must be a decimal numeral with an optional
\* sign; the empty string is 0
ToNumber(s) ==
  IF Len(s) = 0 THEN 0
  ELSE IF Unsigned(s) # <<>> /\ \A k \in 1..Len(Unsigned(s)) : IsDigit(Unsigned(s)[k])
  THEN WithSign(s, DigitsValue(Unsigned(s)))
  ELSE NaN

----------------------------------------------------------------------------
(* The schedule matcher *)

\* the result of parse(part, min, max) when it threw: a set no field can have
ParseError == {NaN}

\* a variant of ParseField whose steps count from 0
ParseFieldStepFromZero(part, min, max) ==
  IF part = <<"*">> THEN min..max
  ELSE IF StartsWith(part, <<"*", "/">>) THEN
    CHOOSE r \in {IF step <= 0 THEN ParseError
                  ELSE {v \in min..max : v % step = 0} :
                    step \in {ParseInt(SubSeq(part, 3, Len(part)))}} : TRUE
  ELSE IF Includes(part, ",") THEN
    CHOOSE r \in {IF \E k \in 1..Len(values) : values[k] < min \/ values[k] > max
                  THEN ParseError
                  ELSE {values[k] : k \in 1..Len(values)} :
                    values \in {[k \in 1..Len(items) |-> ToNumber(items[k])] :
                                 items \in {Split(part, <<",">>)}}} : TRUE
  ELSE IF Includes(part, "-") THEN
    CHOOSE r \in {IF start = NaN \/ end = NaN \/ start < min \/ end > max \/ start > end
                  THEN ParseError
                  ELSE start..end :
                    start \in {ToNumber(Split(part, <<"-">>)[1])},
                    end \in {ToNumber(Split(part, <<"-">>)[2])}} : TRUE
  ELSE
    CHOOSE r \in {IF value = NaN \/ value < min \/ value > max THEN ParseError
                  ELSE {value} :
                    value \in {ParseInt(part)}} : TRUE

\* the inner function parse(part, min, max) of parseCronSchedule: the set of
\* allowed values, or ParseError
ParseField(part, min, max) ==
  IF part = <<"*">> THEN min..max
  ELSE IF StartsWith(part, <<"*", "/">>) THEN
    CHOOSE r \in {IF step <= 0 THEN ParseError
                  ELSE {v \in min..max : (v - min) % step = 0} :
                    step \in {ParseInt(SubSeq(part, 3, Len(part)))}} : TRUE
  ELSE IF Includes(part, ",") THEN
    CHOOSE r \in {IF \E k \in 1..Len(values) : values[k] < min \/ values[k] > max
                  THEN ParseError
                  ELSE {values[k] : k \in 1..Len(values)} :
                    values \in {[k \in 1..Len(items) |-> ToNumber(items[k])] :
                                 items \in {Split(part, <<",">>)}}} : TRUE
  ELSE IF Includes(part, "-") THEN
    CHOOSE r \in {IF start = NaN \/ end = NaN \/ start < min \/ end > max \/ start > end
                  THEN ParseError
                  ELSE start..end :
                    start \in {ToNumber(Split(part, <<"-">>)[1])},
                    end \in {ToNumber(Split(part, <<"-">>)[2])}} : TRUE
  ELSE
    CHOOSE r \in {IF value = NaN \/ value < min \/ value > max THEN ParseError
                  ELSE {value} :
                    value \in {ParseInt(part)}} : TRUE

\* what parseCronSchedule gives when it throws
Thrown ==
  [threw |-> TRUE, minute |-> {}, hour |-> {}, day |-> {}, month |-> {}, weekday |-> {}]

\* parseCronSchedule(schedule): the five sets, or Thrown
parseCronSchedule(schedule) ==
  LET fields(parts) ==
        {IF ParseError \in {minute, hour, day, month, weekday} THEN Thrown
         ELSE [threw |-> FALSE, minute |-> minute, hour |-> hour, day |-> day,
               month |-> month, weekday |-> weekday] :
           minute  \in {ParseField(parts[1], 0, 59)},
           hour    \in {ParseField(parts[2], 0, 23)},
           day     \in {ParseField(parts[3], 1, 31)},
           month   \in {ParseField(parts[4], 1, 12)},
           weekday \in {ParseField(parts[5], 0, 6)}}
  IN  CHOOSE r \in UNION {IF Len(parts) # 5 THEN {Thrown} ELSE fields(parts) :
                           parts \in {Split(schedule, <<" ">>)}} : TRUE

\* the day, counted from the Unix epoch, whose local midnight is time 0 of the
\* model (2024-01-01, a Monday: 54 years, 13 of them leap years, after
\* 1970-01-01, a Thursday)
OriginDay == 54 * 365 + 13

MS_PER_MINUTE == 60 * 1000

MS_PER_DAY == 24 * 60 * MS_PER_MINUTE

\* Math.floor(nowTs / 60000) for the absolute time of model time ts
MinuteBucket(ts) == OriginDay * 24 * 60 + (ts \div MS_PER_MINUTE)

\* the days of 2024 before each month, and the length of the year
DaysBefore == <<0, 31, 60, 91, 121, 152, 182, 213, 244, 274, 305, 335, 366>>

\* new Date(ts): the fields shouldRunCron reads, for a time of the year 2024
DateOf(ts) ==
  CHOOSE r \in {[getMinutes |-> (ts \div MS_PER_MINUTE) % 60,
                 getHours   |-> (ts \div (60 * MS_PER_MINUTE)) % 24,
                 getDate    |-> (ts \div MS_PER_DAY) - DaysBefore[m] + 1,
                 getMonth   |-> m - 1,
                 getDay     |-> (OriginDay + (ts \div MS_PER_DAY) + 4) % 7] :
                   m \in {n \in 1..12 : /\ DaysBefore[n] <= ts \div MS_PER_DAY
                                         /\ ts \div MS_PER_DAY < DaysBefore[n + 1]}} : TRUE

\* a variant of shouldRunCron that does not look at the minute field
shouldRunCronAnyMinute(schedule, ts) ==
  \E cron \in {parseCronSchedule(schedule)}, date \in {DateOf(ts)} :
    IF cron.threw THEN FALSE
    ELSE /\ date.getHours \in cron.hour
         /\ date.getDate \in cron.day
         /\ (date.getMonth + 1) \in cron.month
         /\ date.getDay \in cron.weekday

\* a variant of shouldRunCron in which, as in crontab(5), either of day of
\* the month and weekday is enough when both are restricted
shouldRunCronDayOrWeekday(schedule, ts) ==
  \E cron \in {parseCronSchedule(schedule)}, date \in {DateOf(ts)} :
    IF cron.threw THEN FALSE
    ELSE /\ date.getMinutes \in cron.minute
         /\ date.getHours \in cron.hour
         /\ (date.getMonth + 1) \in cron.month
         /\ IF cron.day # 1..31 /\ cron.weekday # 0..6
            THEN date.getDate \in cron.day \/ date.getDay \in cron.weekday
            ELSE date.getDate \in cron.day /\ date.getDay \in cron.weekday

\* a variant of shouldRunCron that takes a schedule it cannot parse as a match
shouldRunCronUnlessParsed(schedule, ts) ==
  \E cron \in {parseCronSchedule(schedule)}, date \in {DateOf(ts)} :
    IF cron.threw THEN TRUE
    ELSE /\ date.getMinutes \in cron.minute
         /\ date.getHours \in cron.hour
         /\ date.getDate \in cron.day
         /\ (date.getMonth + 1) \in cron.month
         /\ date.getDay \in cron.weekday

\* shouldRunCron(schedule, date)
shouldRunCron(schedule, ts) ==
  \E cron \in {parseCronSchedule(schedule)}, date \in {DateOf(ts)} :
    IF cron.threw THEN FALSE
    ELSE /\ date.getMinutes \in cron.minute
         /\ date.getHours \in cron.hour
         /\ date.getDate \in cron.day
         /\ (date.getMonth + 1) \in cron.month
         /\ date.getDay \in cron.weekday

----------------------------------------------------------------------------
(* The template resolver *)

\* an optional field: <<>> when absent, <<v>> when it holds v
None == <<>>
Some(v) == <<v>>
Present(opt) == Len(opt) = 1

\* whether a ScriptResult's error is truthy: present and not the empty string
HasError(result) == Present(result.error) /\ result.error[1] # <<>>

ErrorOpen == <<"[", "s", "c", "r", "i", "p", "t", " ", "e", "r", "r", "o", "r", ":", " ">>

\* replacement.replace(/\n$/, "")
StripNewline(text) ==
  IF Len(text) > 0 /\ text[Len(text)] = "\n" THEN SubSeq(text, 1, Len(text) - 1)
  ELSE text

\* the text that replaces the placeholder of one result
Replacement(result) ==
  StripNewline(
    IF HasError(result)
    THEN IF result.stdout # <<>>
         THEN result.stdout \o <<"\n">> \o ErrorOpen \o result.error[1] \o <<"]">>
         ELSE ErrorOpen \o result.error[1] \o <<"]">>
    ELSE result.stdout)

\* the placeholder of a result: `{{${result.name}}}`
Placeholder(result) == <<"{", "{">> \o result.name \o <<"}", "}">>

\* resolveScriptTemplates(message, results): one replacement per result, in
\* order, each over the text the one before it left
resolveScriptTemplates(message, results) ==
  LET resolved[k \in 0..Len(results)] ==
        IF k = 0 THEN message
        ELSE Join(Split(resolved[k - 1], Placeholder(results[k])), Replacement(results[k]))
  IN  resolved[Len(results)]

----------------------------------------------------------------------------
(* The jobs of the model *)

\* "*/5 * * * *"
EveryFiveMinutes == <<"*", "/", "5", " ", "*", " ", "*", " ", "*", " ", "*">>
\* "5 0 * * *"
FivePastMidnight == <<"5", " ", "0", " ", "*", " ", "*", " ", "*">>
\* "once"
OnceSchedule == <<"o", "n", "c", "e">>

\* a script of a job; timeout and cwd are optional
ScriptX == [name |-> <<"x">>, command |-> "uptime", timeout |-> None, cwd |-> None]

\* a script with a timeout and a working directory of its own
ScriptY == [name |-> <<"y">>, command |-> "df", timeout |-> Some(60000), cwd |-> Some("/srv")]

\* a one-time job with a script, due at the first timer tick
JobOnce ==
  [name |-> "once-1", schedule |-> OnceSchedule, session |-> "main",
   message |-> <<"u", "p", ":", "{", "{", "x", "}", "}">>,
   scripts |-> <<ScriptX>>, once |-> TRUE, runAt |-> Some(30000)]

\* a recurring job without scripts
JobBeat ==
  [name |-> "beat", schedule |-> EveryFiveMinutes, session |-> "main",
   message |-> <<"h", "i">>, scripts |-> <<>>, once |-> FALSE, runAt |-> None]

\* a recurring job with a script
JobReport ==
  [name |-> "report", schedule |-> FivePastMidnight, session |-> "ops",
   message |-> <<"{", "{", "x", "}", "}">>,
   scripts |-> <<ScriptX>>, once |-> FALSE, runAt |-> None]

\* "{{x}}|{{y}}"
BothOutputs == <<"{", "{", "x", "}", "}", "|", "{", "{", "y", "}", "}">>

\* a recurring job with the scripts of a list, due at the first tick
JobPipe(scripts) ==
  [name |-> "pipe", schedule |-> EveryFiveMinutes, session |-> "main",
   message |-> BothOutputs, scripts |-> scripts, once |-> FALSE, runAt |-> None]

\* the jobs the store holds when the plugin starts
InitialJobs == <<JobOnce, JobBeat>>

\* the jobs the administrative surface adds while the plugin runs
Catalog == {JobOnce, JobReport}

JobNames == {"once-1", "beat", "report", "daily", "pipe", "odd"}

\* what a script writes to stdout
Stdouts == {<<"4", "2", "\n">>}

\* the message of a failed script
ScriptErrors == {<<"E">>}

\* a JavaScript number and a JavaScript string, as the values error.code can hold
Num(n) == [type |-> "number", value |-> n]
Str(text) == [type |-> "string", text |-> text]

----------------------------------------------------------------------------
(* The state *)

VARIABLES
  clock,        \* Date.now(), in ms from the origin
  timerFirings, \* how often the interval timer has fired
  jobs,         \* the job store, in listing order
  runs,         \* the run history
  idCount,      \* how many ids randomUUID has given out
  cfg,          \* cronScriptsEnabled of the daemon config: "absent", "false" or "true"
  lastRun,      \* the tick loop's lastRun map; 0 stands for no entry
  ticks,        \* the tick invocations in progress, one per slot
  tickCount,    \* how many tick invocations have started
  firings,      \* history: every firing of a due job
  ended,        \* history: how the tick invocations ended
  adminOps,     \* how many administrative operations have run
  storeFaults,  \* how many storage operations have failed
  tickInterval, \* tickInterval of index.ts: the id of a timer, 0 for null
  timers,       \* the interval timers set and not cleared, each with its next firing
  probe         \* the last call made from outside the tick loop, with what it gave

vars == <<clock, timerFirings, jobs, runs, idCount, cfg, lastRun, ticks, tickCount,
          firings, ended, adminOps, storeFaults, tickInterval, timers, probe>>

\* no call yet
NoCall == [op |-> "none"]

CRON_TIMEOUT_MS == 5 * 60 * 1000

TICK_INTERVAL_MS == 30 * 1000

DEFAULT_SCRIPT_TIMEOUT == 30 * 1000

Slots == 1..MaxInFlight

\* a slot that holds no invocation
Idle ==
  [pc |-> "idle", tid |-> 0, now |-> 0, crons |-> <<>>, i |-> 0, toRemove |-> <<>>,
   k |-> 0, startTime |-> 0, resolvedMessage |-> <<>>, scriptResults |-> None,
   results |-> <<>>, s |-> 0, scriptStart |-> 0, timeoutId |-> FALSE, deadline |-> 0,
   errorMsg |-> "", durationMs |-> 0, runId |-> 0, waited |-> 0, fid |-> 0,
   firedOnce |-> {}]

NamesOf(list) == {list[n].name : n \in 1..Len(list)}

\* if (cron.runAt): the field is there and is not 0 (no time of the model is
\* the epoch itself)
HasRunAt(cron) == Present(cron.runAt)

\* a variant of ScriptsEnabled that takes an absent flag as set
ScriptsEnabledUnlessFalse(c) == c # "false"

\* !cfg?.cronScriptsEnabled is false
ScriptsEnabled(c) == c = "true"

\* a variant of ShouldExecute that lets a recurring job run again in the
\* minute of its last run
ShouldExecuteSameMinute(cron, nowTs, lr) ==
  IF Len(cron.runAt) = 1
  THEN nowTs >= cron.runAt[1] /\ lr[cron.name] = 0
  ELSE /\ MinuteBucket(nowTs) >= lr[cron.name]
       /\ shouldRunCron(cron.schedule, nowTs)

\* a variant of ShouldExecute that does not look at the lastRun entry of a
\* one-time job
ShouldExecuteUnmarked(cron, nowTs, lr) ==
  IF Len(cron.runAt) = 1
  THEN nowTs >= cron.runAt[1]
  ELSE /\ MinuteBucket(nowTs) > lr[cron.name]
       /\ shouldRunCron(cron.schedule, nowTs)

\* a variant of ShouldExecute that waits until the time is past runAt
ShouldExecuteAfterRunAt(cron, nowTs, lr) ==
  IF Len(cron.runAt) = 1
  THEN nowTs > cron.runAt[1] /\ lr[cron.name] = 0
  ELSE /\ MinuteBucket(nowTs) > lr[cron.name]
       /\ shouldRunCron(cron.schedule, nowTs)

\* lines 205-211: whether the tick at nowTs executes cron
ShouldExecute(cron, nowTs, lr) ==
  IF HasRunAt(cron)
  THEN nowTs >= cron.runAt[1] /\ lr[cron.name] = 0
  ELSE /\ MinuteBucket(nowTs) > lr[cron.name]
       /\ shouldRunCron(cron.schedule, nowTs)

\* the positions at or after from of the jobs the tick executes when it gets
\* to them with the lastRun map lr
DueFrom(crons, from, nowTs, lr) ==
  {n \in from..Len(crons) : ShouldExecute(crons[n], nowTs, lr)}

\* the first of a set of positions
First(due) == CHOOSE n \in due : \A m \in due : n <= m

\* the invocation of a slot with the variables of its loop body (lines 202-220)
\* out of scope
Locals(slot) ==
  [Idle EXCEPT !.pc = slot.pc, !.tid = slot.tid, !.now = slot.now, !.crons = slot.crons,
               !.i = slot.i, !.toRemove = slot.toRemove, !.firedOnce = slot.firedOnce]

\* the call of ctx.inject raced against the job timeout (lines 237-245)
CallInject(slot) ==
  [slot EXCEPT !.pc = "inject", !.timeoutId = TRUE,
               !.deadline = clock + CRON_TIMEOUT_MS]

\* the invocation of slot t ends: its promise resolves or rejects. The history
\* keeps how it ended, the jobs of its listing that were due and that it never
\* got to, and the one-time jobs it fired that the store still holds
EndTick(t, slot, how, cause, jobsAfter) ==
  /\ ticks' = [ticks EXCEPT ![t] = Idle]
  /\ ended' = ended \cup
       {[how |-> how, cause |-> cause,
         skippedDue |-> IF slot.pc = "list" THEN {}
                        ELSE {slot.crons[n].name :
                                n \in DueFrom(slot.crons, slot.i + 1, slot.now, lastRun)},
         leftOnce |-> slot.firedOnce \cap NamesOf(jobsAfter)]}

\* lines 213-235: the job at position n is due
Fire(t, slot, n, frs) ==
  LET cron       == slot.crons[n]
      runScripts == Len(cron.scripts) > 0 /\ ScriptsEnabled(cfg)
      started    == [Locals(slot) EXCEPT !.i = n, !.startTime = clock,
                                 !.resolvedMessage = cron.message,
                                 !.fid = Len(frs) + 1,
                                 !.firedOnce = IF cron.once THEN @ \cup {cron.name} ELSE @]
      firing     == [name |-> cron.name, job |-> cron, now |-> slot.now,
                     tid |-> slot.tid, flag |-> cfg,
                     scriptsRun |-> IF runScripts THEN 1 ELSE 0,
                     injected |-> ~runScripts,
                     message |-> IF runScripts THEN None ELSE Some(cron.message),
                     outcome |-> "pending", records |-> <<>>, over |-> FALSE,
                     timer |-> IF runScripts THEN "unset" ELSE "armed", late |-> FALSE]
  IN  /\ lastRun' = [lastRun EXCEPT ![cron.name] = MinuteBucket(slot.now)]
      /\ firings' = Append(frs, firing)
      /\ ticks' = [ticks EXCEPT ![t] =
                     IF runScripts
                     THEN [started EXCEPT !.pc = "scripts", !.s = 1, !.scriptStart = clock]
                     ELSE CallInject(started)]
      /\ ended' = ended

\* the job loop from position from on (lines 201-281), up to its next await,
\* and what follows the loop (lines 283-287)
Continue(t, slot, from, frs, jobsAfter) ==
  \E due \in {DueFrom(slot.crons, from, slot.now, lastRun)} :
      IF due # {} THEN Fire(t, slot, First(due), frs)
      ELSE /\ lastRun' = lastRun
           /\ firings' = frs
           /\ IF slot.toRemove # <<>>
              THEN /\ ticks' = [ticks EXCEPT ![t] =
                        [Locals(slot) EXCEPT !.pc = "remove", !.k = 1, !.i = Len(slot.crons)]]
                   /\ ended' = ended
              ELSE EndTick(t, [slot EXCEPT !.i = Len(slot.crons)], "resolved", "", jobsAfter)

----------------------------------------------------------------------------
(* The tick loop *)

\* the lowest slot that holds no invocation
FreeSlot == CHOOSE t \in Slots : ticks[t].pc = "idle" /\ \A u \in Slots : ticks[u].pc = "idle" => t <= u

\* the timeout of the script the invocation of a slot is running
ScriptTimeoutOf(slot) ==
  LET script == slot.crons[slot.i].scripts[slot.s]
  IN  IF Present(script.timeout) THEN script.timeout[1] ELSE DEFAULT_SCRIPT_TIMEOUT

\* no timer that is due has yet to fire: time moves on only then
NoTimerDue ==
  \A u \in Slots :
    /\ ticks[u].pc = "inject" => ticks[u].deadline > clock
    /\ ticks[u].pc = "scripts" => ticks[u].scriptStart + ScriptTimeoutOf(ticks[u]) > clock

\* the invocation awaits getCrons, addCronRun or removeCron
StoragePending(slot) == slot.pc \in {"list", "record", "recordFailure", "remove"}

\* the timers that fire next
NextTimers == {timer \in timers : \A other \in timers : timer.due <= other.due}

\* an interval timer fires, 30 s after it has been set or has fired, and calls
\* cronTick, which takes the time and calls getCrons (lines 195-198)
TimerFires(limit) ==
  /\ timerFirings < limit
  /\ \E t \in Slots : ticks[t].pc = "idle"
  /\ NoTimerDue
  /\ \A u \in Slots : StoragePending(ticks[u]) => ticks[u].waited < MaxStoreLatency
  /\ \E timer \in NextTimers :
       /\ clock' = timer.due
       /\ timers' = (timers \ {timer}) \cup {[timer EXCEPT !.due = @ + TICK_INTERVAL_MS]}
  /\ timerFirings' = timerFirings + 1
  /\ tickCount' = tickCount + 1
  /\ ticks' = [u \in Slots |->
                 IF u = FreeSlot
                 THEN [Idle EXCEPT !.pc = "list", !.tid = tickCount + 1, !.now = clock']
                 ELSE IF StoragePending(ticks[u])
                 THEN [ticks[u] EXCEPT !.waited = @ + 1]
                 ELSE ticks[u]]
  /\ UNCHANGED <<tickInterval, probe, jobs, runs, idCount, cfg, lastRun, firings, ended,
                 adminOps, storeFaults>>

TimerFire == TimerFires(MaxTimerFirings)

\* getCrons resolves with the jobs of the store, and the job loop starts
GetCronsResolves(t) ==
  /\ ticks[t].pc = "list"
  /\ Continue(t, [ticks[t] EXCEPT !.crons = jobs, !.toRemove = <<>>], 1, firings, jobs)
  /\ UNCHANGED <<tickInterval, timers, probe,
                 clock, timerFirings, jobs, runs, idCount, cfg, tickCount, adminOps,
                 storeFaults>>

\* the result of the script that has run (executeCronScript, lines 413-442)
ScriptResult(slot, exitCode, stdout, error) ==
  [name |-> slot.crons[slot.i].scripts[slot.s].name, exitCode |-> exitCode,
   stdout |-> stdout, stderr |-> <<>>, durationMs |-> clock - slot.scriptStart,
   error |-> error]

\* a variant of AfterScript in which a failed script ends the pipeline
AfterScriptStoppingAtFailure(t, result) ==
  LET slot    == ticks[t]
      cron    == slot.crons[slot.i]
      results == Append(slot.results, result)
  IN  /\ IF slot.s < Len(cron.scripts) /\ ~Present(result.error)
         THEN /\ ticks' = [ticks EXCEPT ![t] =
                    [slot EXCEPT !.results = results, !.s = slot.s + 1,
                                 !.scriptStart = clock]]
              /\ firings' = [firings EXCEPT ![slot.fid].scriptsRun = @ + 1]
         ELSE \E message \in {resolveScriptTemplates(cron.message, results)} :
              /\ ticks' = [ticks EXCEPT ![t] =
                    CallInject([slot EXCEPT !.results = results,
                                            !.scriptResults = Some(results),
                                            !.resolvedMessage = message])]
              /\ firings' = [firings EXCEPT ![slot.fid].injected = TRUE,
                                            ![slot.fid].message = Some(message),
                                            ![slot.fid].timer = "armed"]
      /\ UNCHANGED <<tickInterval, timers, probe,
                     clock, timerFirings, jobs, runs, idCount, cfg, lastRun, tickCount,
                     ended, adminOps, storeFaults>>

\* executeCronScripts goes on after a script (lines 447-453), and after the
\* last one the message is resolved and handed to ctx.inject (lines 228-238)
AfterScript(t, result) ==
  LET slot    == ticks[t]
      cron    == slot.crons[slot.i]
      results == Append(slot.results, result)
  IN  /\ IF slot.s < Len(cron.scripts)
         THEN /\ ticks' = [ticks EXCEPT ![t] =
                    [slot EXCEPT !.results = results, !.s = slot.s + 1,
                                 !.scriptStart = clock]]
              /\ firings' = [firings EXCEPT ![slot.fid].scriptsRun = @ + 1]
         ELSE \E message \in {resolveScriptTemplates(cron.message, results)} :
              /\ ticks' = [ticks EXCEPT ![t] =
                    CallInject([slot EXCEPT !.results = results,
                                            !.scriptResults = Some(results),
                                            !.resolvedMessage = message])]
              /\ firings' = [firings EXCEPT ![slot.fid].injected = TRUE,
                                            ![slot.fid].message = Some(message),
                                            ![slot.fid].timer = "armed"]
      /\ UNCHANGED <<tickInterval, timers, probe,
                     clock, timerFirings, jobs, runs, idCount, cfg, lastRun, tickCount,
                     ended, adminOps, storeFaults>>

\* exitCode in the catch branch: error.code ?? 1 (line 433)
ExitCodeOf(code) == IF Present(code) THEN code[1] ELSE Num(1)

\* the script exits with code 0: execAsync resolves (lines 417-429)
ScriptSucceeds(t, stdout) ==
  /\ ticks[t].pc = "scripts"
  /\ AfterScript(t, ScriptResult(ticks[t], Num(0), stdout, None))

\* the script exits with another code: execAsync rejects with an error whose
\* code is the exit code (lines 430-440)
ScriptFails(t, code, stdout, error) ==
  /\ ticks[t].pc = "scripts"
  /\ code # 0
  /\ AfterScript(t, ScriptResult(ticks[t], ExitCodeOf(Some(Num(code))), stdout, Some(error)))

\* the script is killed at its timeout: the error carries no exit code
ScriptTimesOut(t, error) ==
  /\ ticks[t].pc = "scripts"
  /\ clock >= ticks[t].scriptStart + ScriptTimeoutOf(ticks[t])
  /\ AfterScript(t, ScriptResult(ticks[t], ExitCodeOf(None), <<>>, Some(error)))

\* the process cannot be spawned (its cwd does not exist, say): execAsync
\* rejects with an error whose code is the name of the system error, a string
ScriptSpawnFails(t, errno, error) ==
  /\ ticks[t].pc = "scripts"
  /\ AfterScript(t, ScriptResult(ticks[t], ExitCodeOf(Some(Str(errno))), <<>>, Some(error)))

\* a variant of CallAddCronRun that gives every record the same id
CallAddCronRunSameId(slot, pc, errorMsg) ==
  [slot EXCEPT !.pc = pc, !.errorMsg = errorMsg, !.durationMs = clock - slot.startTime,
               !.runId = 1, !.waited = 0]

\* the call of addCronRun (lines 249-257, 268-276, and 68-71 of the repository)
CallAddCronRun(slot, pc, errorMsg) ==
  [slot EXCEPT !.pc = pc, !.errorMsg = errorMsg, !.durationMs = clock - slot.startTime,
               !.runId = idCount + 1, !.waited = 0]

\* the race is settled: the success branch (246-257) or the catch branch (263-276)
Settle(t, outcome, pc, errorMsg) ==
  /\ ticks' = [ticks EXCEPT ![t] = CallAddCronRun(ticks[t], pc, errorMsg)]
  /\ idCount' = idCount + 1
  /\ firings' = [firings EXCEPT ![ticks[t].fid].outcome = outcome,
                                ![ticks[t].fid].timer = IF outcome = "timeout"
                                                        THEN "fired" ELSE @]
  /\ UNCHANGED <<tickInterval, timers, probe,
                 clock, timerFirings, jobs, runs, cfg, lastRun, tickCount, ended,
                 adminOps, storeFaults>>

\* ctx.inject resolves before the timeout
InjectResolves(t) ==
  /\ ticks[t].pc = "inject"
  /\ Settle(t, "resolved", "record", "")

\* ctx.inject rejects before the timeout
InjectRejects(t) ==
  /\ ticks[t].pc = "inject"
  /\ Settle(t, "rejected", "recordFailure", "injection failed")

\* the job timeout fires first
InjectTimesOut(t) ==
  /\ ticks[t].pc = "inject"
  /\ ticks[t].timeoutId
  /\ clock >= ticks[t].deadline
  /\ Settle(t, "timeout", "recordFailure", "timed out")

\* a variant of RunRecord that writes the success record in both branches
RunRecordOfSuccess(slot) ==
  [id |-> slot.runId, cronName |-> slot.crons[slot.i].name,
   session |-> slot.crons[slot.i].session, startedAt |-> slot.startTime,
   status |-> "success", durationMs |-> slot.durationMs, error |-> None,
   message |-> slot.resolvedMessage, scriptResults |-> slot.scriptResults]

\* the run record addCronRun inserts
RunRecord(slot) ==
  LET cron == slot.crons[slot.i]
  IN  IF slot.pc = "record"
      THEN [id |-> slot.runId, cronName |-> cron.name, session |-> cron.session,
            startedAt |-> slot.startTime, status |-> "success",
            durationMs |-> slot.durationMs, error |-> None,
            message |-> slot.resolvedMessage, scriptResults |-> slot.scriptResults]
      ELSE [id |-> slot.runId, cronName |-> cron.name, session |-> cron.session,
            startedAt |-> slot.startTime, status |-> "failure",
            durationMs |-> slot.durationMs, error |-> Some(slot.errorMsg),
            message |-> cron.message, scriptResults |-> None]

\* a variant of AddCronRunResolves that leaves the timeout timer of the job
\* as it is
AddCronRunResolvesLeavingTimer(t) ==
  LET slot == ticks[t]
      cron == slot.crons[slot.i]
      next == [slot EXCEPT !.toRemove = IF slot.pc = "record" /\ cron.once
                                        THEN Append(@, cron.name) ELSE @]
  IN  /\ slot.pc \in {"record", "recordFailure"}
      /\ runs' = Append(runs, RunRecord(slot))
      /\ Continue(t, next, slot.i + 1,
                  [firings EXCEPT ![slot.fid].records = Append(@, slot.runId),
                                  ![slot.fid].over = TRUE], jobs)
      /\ UNCHANGED <<tickInterval, timers, probe,
                     clock, timerFirings, jobs, idCount, cfg, tickCount, adminOps,
                     storeFaults>>

\* a variant of AddCronRunResolves that removes a one-time job as soon as its
\* record is written
AddCronRunResolvesRemoving(t) ==
  LET slot  == ticks[t]
      cron  == slot.crons[slot.i]
      after == IF slot.pc = "record" /\ cron.once
               THEN SelectSeq(jobs, LAMBDA j : j.name # cron.name) ELSE jobs
  IN  /\ slot.pc \in {"record", "recordFailure"}
      /\ runs' = Append(runs, RunRecord(slot))
      /\ jobs' = after
      /\ Continue(t, [slot EXCEPT !.timeoutId = FALSE], slot.i + 1,
                  [firings EXCEPT ![slot.fid].records = Append(@, slot.runId),
                                  ![slot.fid].over = TRUE,
                                  ![slot.fid].timer = "cleared"], after)
      /\ UNCHANGED <<tickInterval, timers, probe,
                     clock, timerFirings, idCount, cfg, tickCount, adminOps, storeFaults>>

\* a variant of AddCronRunResolves in which the loop goes on while the record
\* is still to be written
AddCronRunResolvesLater(t) ==
  LET slot == ticks[t]
  IN  /\ slot.pc \in {"record", "recordFailure"}
      /\ runs' = runs
      /\ Continue(t, [slot EXCEPT !.timeoutId = FALSE], slot.i + 1, firings, jobs)
      /\ UNCHANGED <<tickInterval, timers, probe,
                     clock, timerFirings, jobs, idCount, cfg, tickCount, adminOps,
                     storeFaults>>

\* addCronRun resolves: the record is in the history, a one-time job that
\* succeeded is queued for removal (259-262), the timer is cleared (278) and the
\* loop goes on
AddCronRunResolves(t) ==
  LET slot == ticks[t]
      cron == slot.crons[slot.i]
      next == [slot EXCEPT !.timeoutId = FALSE,
                           !.toRemove = IF slot.pc = "record" /\ cron.once
                                        THEN Append(@, cron.name) ELSE @]
  IN  /\ slot.pc \in {"record", "recordFailure"}
      /\ runs' = Append(runs, RunRecord(slot))
      /\ Continue(t, next, slot.i + 1,
                  [firings EXCEPT ![slot.fid].records = Append(@, slot.runId),
                                  ![slot.fid].over = TRUE,
                                  ![slot.fid].timer = "cleared"], jobs)
      /\ UNCHANGED <<tickInterval, timers, probe,
                     clock, timerFirings, jobs, idCount, cfg, tickCount, adminOps,
                     storeFaults>>

\* removeCron resolves: the job is gone, and the next name follows (283-287)
RemoveCronResolves(t) ==
  LET slot  == ticks[t]
      name  == slot.toRemove[slot.k]
      after == SelectSeq(jobs, LAMBDA j : j.name # name)
  IN  /\ slot.pc = "remove"
      /\ jobs' = after
      /\ IF slot.k < Len(slot.toRemove)
         THEN /\ ticks' = [ticks EXCEPT ![t].k = slot.k + 1, ![t].waited = 0]
              /\ ended' = ended
         ELSE EndTick(t, slot, "resolved", "", after)
      /\ UNCHANGED <<tickInterval, timers, probe,
                     clock, timerFirings, runs, idCount, cfg, lastRun, tickCount,
                     firings, adminOps, storeFaults>>

----------------------------------------------------------------------------
(* Failures of the storage *)

\* the number of storage operations that fail
MaxStoreFaults == 2

\* getCrons rejects: the tick's promise rejects (line 198 is not guarded)
GetCronsRejects(t) ==
  /\ ticks[t].pc = "list"
  /\ storeFaults < MaxStoreFaults
  /\ storeFaults' = storeFaults + 1
  /\ EndTick(t, ticks[t], "rejected", "getCrons", jobs)
  /\ UNCHANGED <<tickInterval, timers, probe,
                 clock, timerFirings, jobs, runs, idCount, cfg, lastRun, tickCount,
                 firings, adminOps>>

\* addCronRun rejects in the success branch: the catch branch takes over
RecordRejects(t) ==
  /\ ticks[t].pc = "record"
  /\ storeFaults < MaxStoreFaults
  /\ storeFaults' = storeFaults + 1
  /\ ticks' = [ticks EXCEPT ![t] = CallAddCronRun(ticks[t], "recordFailure", "storage failure")]
  /\ idCount' = idCount + 1
  /\ UNCHANGED <<tickInterval, timers, probe,
                 clock, timerFirings, jobs, runs, cfg, lastRun, tickCount, firings,
                 ended, adminOps>>

\* addCronRun rejects in the catch branch: the error leaves the loop, the timer
\* is cleared (278) and the tick's promise rejects
RecordFailureRejects(t) ==
  /\ ticks[t].pc = "recordFailure"
  /\ storeFaults < MaxStoreFaults
  /\ storeFaults' = storeFaults + 1
  /\ firings' = [firings EXCEPT ![ticks[t].fid].over = TRUE,
                                ![ticks[t].fid].timer = "cleared"]
  /\ EndTick(t, ticks[t], "rejected", "addCronRun", jobs)
  /\ UNCHANGED <<tickInterval, timers, probe,
                 clock, timerFirings, jobs, runs, idCount, cfg, lastRun, tickCount,
                 adminOps>>

\* removeCron rejects: the tick's promise rejects (line 285 is not guarded)
RemoveCronRejects(t) ==
  /\ ticks[t].pc = "remove"
  /\ storeFaults < MaxStoreFaults
  /\ storeFaults' = storeFaults + 1
  /\ EndTick(t, ticks[t], "rejected", "removeCron", jobs)
  /\ UNCHANGED <<tickInterval, timers, probe,
                 clock, timerFirings, jobs, runs, idCount, cfg, lastRun, tickCount,
                 firings, adminOps>>

----------------------------------------------------------------------------
(* The administrative surface and the configuration *)

\* the number of administrative operations and configuration changes
MaxAdminOps == 1

\* the repository of the jobs table, keyed by name: findById, insert, update
\* and delete on its rows
RepoFindById(rows, id) ==
  IF \E k \in 1..Len(rows) : rows[k].name = id
  THEN Some(rows[CHOOSE k \in 1..Len(rows) : rows[k].name = id])
  ELSE None

RepoInsert(rows, row) == Append(rows, row)

RepoUpdate(rows, id, row) ==
  [k \in 1..Len(rows) |-> IF rows[k].name = id THEN row ELSE rows[k]]

RepoDelete(rows, id) == SelectSeq(rows, LAMBDA row : row.name # id)

\* a variant of addCron that inserts without looking for the name
addCronInserting(rows, job) == RepoInsert(rows, job)

\* addCron(job) on the rows of the store: findById, then update or insert
addCron(rows, job) ==
  IF Present(RepoFindById(rows, job.name))
  THEN RepoUpdate(rows, job.name, job)
  ELSE RepoInsert(rows, job)

\* what delete gives: whether a row of that id was there
RepoDeleted(rows, id) == \E k \in 1..Len(rows) : rows[k].name = id

\* removeCron(name) on the rows of the store, and the value it resolves with
removeCron(rows, name) == RepoDelete(rows, name)
Removed(rows, name) == RepoDeleted(rows, name)

\* addCron(job): upsert by name
AddCron(job) ==
  /\ adminOps < MaxAdminOps
  /\ adminOps' = adminOps + 1
  /\ jobs' = addCron(jobs, job)
  /\ UNCHANGED <<tickInterval, timers, probe,
                 clock, timerFirings, runs, idCount, cfg, lastRun, ticks, tickCount,
                 firings, ended, storeFaults>>

\* removeCron(name) of a job of the store
RemoveCron(name) ==
  /\ adminOps < MaxAdminOps
  /\ name \in NamesOf(jobs)
  /\ adminOps' = adminOps + 1
  /\ jobs' = SelectSeq(jobs, LAMBDA j : j.name # name)
  /\ UNCHANGED <<tickInterval, timers, probe,
                 clock, timerFirings, runs, idCount, cfg, lastRun, ticks, tickCount,
                 firings, ended, storeFaults>>

\* the daemon configuration changes
SetConfig(value) ==
  /\ adminOps < MaxAdminOps
  /\ value # cfg
  /\ adminOps' = adminOps + 1
  /\ cfg' = value
  /\ UNCHANGED <<tickInterval, timers, probe,
                 clock, timerFirings, jobs, runs, idCount, lastRun, ticks, tickCount,
                 firings, ended, storeFaults>>

----------------------------------------------------------------------------
(* The specifications *)

\* init: the tick loop is created with an empty lastRun, the timer is set and
\* the first tick runs at once (index.ts 27-30)
Start(startTime, stored, flags) ==
  /\ clock = startTime
  /\ timerFirings = 0
  /\ jobs = stored
  /\ runs = <<>>
  /\ idCount = 0
  /\ cfg \in flags
  /\ lastRun = [n \in JobNames |-> 0]
  /\ ticks = [t \in Slots |->
               IF t = 1 THEN [Idle EXCEPT !.pc = "list", !.tid = 1, !.now = startTime]
               ELSE Idle]
  /\ tickCount = 1
  /\ firings = <<>>
  /\ ended = {}
  /\ adminOps = 0
  /\ storeFaults = 0
  /\ tickInterval = 1
  /\ timers = {[id |-> 1, due |-> startTime + TICK_INTERVAL_MS]}
  /\ probe = NoCall

\* the plugin starts at time 0 with the jobs InitialJobs
Init == Start(0, InitialJobs, {"absent", "true"})

TickStep(t) ==
  \/ GetCronsResolves(t)
  \/ \E stdout \in Stdouts : ScriptSucceeds(t, stdout)
  \/ \E stdout \in Stdouts, error \in ScriptErrors : ScriptFails(t, 2, stdout, error)
  \/ \E error \in ScriptErrors : ScriptTimesOut(t, error)
  \/ InjectResolves(t)
  \/ InjectRejects(t)
  \/ InjectTimesOut(t)
  \/ AddCronRunResolves(t)
  \/ RemoveCronResolves(t)

Admin ==
  \/ \E job \in Catalog : AddCron(job)
  \/ \E name \in JobNames : RemoveCron(name)
  \/ \E value \in {"absent", "false", "true"} : SetConfig(value)

StoreFault(t) ==
  \/ GetCronsRejects(t)
  \/ RecordRejects(t)
  \/ RecordFailureRejects(t)
  \/ RemoveCronRejects(t)

\* the storage does what it is asked
Next ==
  \/ TimerFire
  \/ \E t \in Slots : TickStep(t)
  \/ Admin

Spec == Init /\ [][Next]_vars

\* the storage may fail; nobody administers the jobs meanwhile
NextFaulty ==
  \/ TimerFire
  \/ \E t \in Slots : TickStep(t)
  \/ \E t \in Slots : StoreFault(t)

SpecFaulty == Init /\ [][NextFaulty]_vars

----------------------------------------------------------------------------
(* The script pipeline of one job: the store holds a job with one to
   MaxScripts scripts, and scripts are enabled *)

MaxScripts == 3
MaxScriptFirings == 4

\* the lists of scripts a job can have
ScriptLists ==
  UNION {[1..n -> {ScriptX, ScriptY}] : n \in 1..MaxScripts}

\* the exit codes of a failing script
FailureCodes == {2, 127}

\* the names of the system errors that keep a process from being spawned
SpawnErrors == {"ENOENT"}

InitScripts == \E list \in ScriptLists : Start(0, <<JobPipe(list)>>, {"true"})

TimerFireScripts == TimerFires(MaxScriptFirings)

NextScripts ==
  \/ TimerFireScripts
  \/ \E t \in Slots : GetCronsResolves(t)
  \/ \E t \in Slots, stdout \in Stdouts : ScriptSucceeds(t, stdout)
  \/ \E t \in Slots, code \in FailureCodes, stdout \in Stdouts, error \in ScriptErrors :
        ScriptFails(t, code, stdout, error)
  \/ \E t \in Slots, error \in ScriptErrors : ScriptTimesOut(t, error)
  \/ \E t \in Slots, errno \in SpawnErrors, error \in ScriptErrors :
        ScriptSpawnFails(t, errno, error)
  \/ \E t \in Slots : InjectResolves(t)
  \/ \E t \in Slots : AddCronRunResolves(t)

SpecScripts == InitScripts /\ [][NextScripts]_vars

----------------------------------------------------------------------------
(* A day and two minutes of ticks over one daily job *)

\* "30 9 * * *"
HalfPastNine == <<"3", "0", " ", "9", " ", "*", " ", "*", " ", "*">>

JobDaily ==
  [name |-> "daily", schedule |-> HalfPastNine, session |-> "main",
   message |-> <<"a", "m">>, scripts |-> <<>>, once |-> FALSE, runAt |-> None]

\* 09:29:00 of the first day
DailyStart == (9 * 60 + 29) * MS_PER_MINUTE

\* the timer firings from 09:29:00 to 09:31:00 of the day after
MaxDailyFirings == 2884

\* the plugin starts at 09:29:00 with the daily job alone
InitDaily == Start(DailyStart, <<JobDaily>>, {"absent"})

TimerFireDaily == TimerFires(MaxDailyFirings)

NextDaily ==
  \/ TimerFireDaily
  \/ \E t \in Slots : GetCronsResolves(t)
  \/ \E t \in Slots : InjectResolves(t)
  \/ \E t \in Slots : InjectRejects(t)
  \/ \E t \in Slots : InjectTimesOut(t)
  \/ \E t \in Slots : AddCronRunResolves(t)

SpecDaily == InitDaily /\ [][NextDaily]_vars

----------------------------------------------------------------------------
(* The properties *)

\* a firing of a recurring job: one without runAt
Recurring(f) == ~HasRunAt(f.job)

\* the firings of the history, by their position
Fired == 1..Len(firings)

\* the run records the firing f has appended
RecordsOf(f) == {r \in 1..Len(runs) : \E k \in 1..Len(f.records) : runs[r].id = f.records[k]}

\* the listing the job loop of slot t works on
ListingOf(t) == IF ticks[t].pc = "list" THEN jobs ELSE ticks[t].crons

\* a step in which the job loop of slot t moves on, from the listing or from a
\* job whose run record is written, to the next job it fires or to its end
LoopMoves(t) ==
  /\ ticks[t].pc \in {"list", "record", "recordFailure"}
  /\ ticks'[t].pc \in {"scripts", "inject", "remove", "idle"}

\* the positions the loop of slot t passes in such a step without firing the job
PassedOver(t) ==
  (IF ticks[t].pc = "list" THEN 1 ELSE ticks[t].i + 1) ..
  (IF ticks'[t].pc \in {"scripts", "inject"} THEN ticks'[t].i - 1 ELSE Len(ListingOf(t)))

\* C1: a recurring job is fired at most once for a minute bucket of the firing
\* tick's timestamp, whichever ticks fire it and however they overlap, and from
\* the moment a firing begins (before its scripts and its delivery) the job's
\* lastRun entry holds that bucket or a later one
C1_OncePerMinuteBucket ==
  /\ \A a, b \in Fired :
       (/\ a < b
        /\ Recurring(firings[a]) /\ Recurring(firings[b])
        /\ firings[a].name = firings[b].name)
         => MinuteBucket(firings[a].now) # MinuteBucket(firings[b].now)
  /\ \A a \in Fired : lastRun[firings[a].name] >= MinuteBucket(firings[a].now)

\* two ticks of the same minute overlap; the earlier one has fired a recurring
\* job and still awaits its delivery, the later one has the job in its listing
\* and has finished its loop without firing it
C1_SecondTickOfTheMinute ==
  \E t, u \in Slots, a \in Fired :
    /\ Recurring(firings[a])
    /\ ticks[u].tid = firings[a].tid /\ ticks[u].pc = "inject"
    /\ ticks[t].pc = "remove" /\ ticks[t].tid > firings[a].tid
    /\ MinuteBucket(ticks[t].now) = MinuteBucket(firings[a].now)
    /\ \E p \in 1..Len(ticks[t].crons) : ticks[t].crons[p] = firings[a].job

\* C2: a one-time job (runAt set) is fired at most once while the tick loop
\* lives, however many ticks find it in the store
C2_OneTimeAtMostOnce ==
  \A a, b \in Fired :
    (/\ a < b
     /\ HasRunAt(firings[a].job) /\ HasRunAt(firings[b].job))
      => firings[a].name # firings[b].name

\* the delivery of a one-time job has failed, the job is still in the store, and
\* a later tick has passed it in its listing and fired the job after it
C2_SeenAgainAfterFailure ==
  \E t \in Slots, a \in Fired :
    /\ HasRunAt(firings[a].job)
    /\ firings[a].over /\ firings[a].outcome \in {"rejected", "timeout"}
    /\ ticks[t].tid > firings[a].tid
    /\ ticks[t].pc = "inject"
    /\ \E p \in 1..(ticks[t].i - 1) : ticks[t].crons[p] = firings[a].job
    /\ firings[a].name \in NamesOf(jobs)

\* C3: when a tick has fired a one-time job (once = true), the store no longer
\* holds the job once the tick has ended, whatever the outcome of the delivery
C3_OnceJobGoneAfterTick ==
  \A e \in ended : e.leftOnce = {}

C6_LaterJobsStillRun ==
  \A e \in ended : e.skippedDue = {}

\* C7: the promise of a tick invocation never rejects
C7_TickNeverRejects ==
  \A e \in ended : e.how = "resolved"

\* C8: at no time are two tick invocations in progress
C8_NoOverlappingTicks ==
  \A t, u \in Slots : (ticks[t].pc # "idle" /\ ticks[u].pc # "idle") => t = u

\* the time ts is in the minute 09:30 of its day
AtHalfPastNine(ts) == DateOf(ts).getHours = 9 /\ DateOf(ts).getMinutes = 30

\* the day of the time ts
DayOf(ts) == ts \div MS_PER_DAY

\* C9: with a tick every 30 s, the job "30 9 * * *" is fired by ticks taken in
\* the minute 09:30 only, at most once a day, and no tick taken in that minute
\* passes it on a day on which it has not fired yet
C9_OnceADayAtHalfPastNine ==
  /\ [](\A a \in Fired :
          /\ AtHalfPastNine(firings[a].now)
          /\ \A b \in Fired : a < b => DayOf(firings[a].now) # DayOf(firings[b].now))
  /\ [][\A t \in Slots :
          LoopMoves(t) =>
            \A m \in PassedOver(t) :
              ~(/\ ListingOf(t)[m] = JobDaily
                /\ AtHalfPastNine(ticks[t].now)
                /\ \A a \in Fired : DayOf(firings[a].now) # DayOf(ticks[t].now))]_vars

\* the job has fired on the first day and on the second, each time once, and
\* the ticks of 09:30:30 and of 09:31:00 of the second day have ended
C9_FiredOnBothDays ==
  /\ Len(firings) = 2
  /\ DayOf(firings[1].now) = 0 /\ DayOf(firings[2].now) = 1
  /\ clock = MS_PER_DAY + DailyStart + 2 * MS_PER_MINUTE
  /\ \A t \in Slots : ticks[t].pc = "idle"

\* C10: a firing of a job with scripts while the flag is not true runs no
\* script, hands the job's message to ctx.inject as it stands, and its run
\* record has no script results; and a firing runs scripts only when the flag
\* was true as it began
C10_ScriptsOnlyWhenEnabled ==
  \A a \in Fired :
    /\ (Len(firings[a].job.scripts) > 0 /\ firings[a].flag # "true") =>
         /\ firings[a].scriptsRun = 0
         /\ firings[a].injected
         /\ firings[a].message = Some(firings[a].job.message)
         /\ \A r \in RecordsOf(firings[a]) : ~Present(runs[r].scriptResults)
    /\ firings[a].scriptsRun > 0 => firings[a].flag = "true"

\* a job with scripts has fired while the flag was false, and its run record is
\* written
C10_FiredWhileDisabled ==
  \E a \in Fired :
    /\ Len(firings[a].job.scripts) > 0
    /\ firings[a].flag = "false"
    /\ firings[a].over
    /\ RecordsOf(firings[a]) # {}

\* the scripts of the job the invocation of a slot is at
ScriptsAt(slot) == slot.crons[slot.i].scripts

\* results k holds the result of scripts k, for every result there is
InListOrder(results, scripts) ==
  /\ Len(results) <= Len(scripts)
  /\ \A k \in 1..Len(results) : results[k].name = scripts[k].name

\* C11: executeCronScripts runs the scripts one at a time in list order: while
\* the pipeline runs, the scripts started are those with a result and the one
\* running, and the results are those of the first scripts, in order and with
\* their names; when the message is handed on there is exactly one result
\* per script, whatever failed or timed out
C11_OneResultPerScriptInOrder ==
  \A t \in Slots :
    /\ ticks[t].pc = "scripts" =>
          /\ InListOrder(ticks[t].results, ScriptsAt(ticks[t]))
          /\ Len(ticks[t].results) < Len(ScriptsAt(ticks[t]))
          /\ firings[ticks[t].fid].scriptsRun = Len(ticks[t].results) + 1
    /\ ticks[t].pc \in {"inject", "record", "recordFailure"} =>
          /\ Present(ticks[t].scriptResults)
          /\ InListOrder(ticks[t].scriptResults[1], ScriptsAt(ticks[t]))
          /\ Len(ticks[t].scriptResults[1]) = Len(ScriptsAt(ticks[t]))
          /\ firings[ticks[t].fid].scriptsRun = Len(ScriptsAt(ticks[t]))

\* the first script ran into its timeout, the second failed, the third ran
C11_RanAfterTimeoutAndFailure ==
  \E t \in Slots :
    /\ ticks[t].pc = "inject"
    /\ Present(ticks[t].scriptResults)
    /\ \E r \in {ticks[t].scriptResults[1]} :
          /\ Len(r) = 3
          /\ Present(r[1].error) /\ r[1].durationMs >= DEFAULT_SCRIPT_TIMEOUT
          /\ Present(r[2].error) /\ r[2].exitCode = Num(2)
          /\ ~Present(r[3].error) /\ r[3].exitCode = Num(0)

\* the results the invocations hold and those of the run records
ResultsSeen ==
  UNION {{ticks[t].results[k] : k \in 1..Len(ticks[t].results)} : t \in Slots}
  \cup UNION {IF Present(runs[r].scriptResults)
               THEN {runs[r].scriptResults[1][k] : k \in 1..Len(runs[r].scriptResults[1])}
               ELSE {} : r \in 1..Len(runs)}

\* C12: a result without error has exitCode 0, and a result with error has
\* as exitCode a number other than 0: the code the process reported, or 1
C12_ExitCodeIsReportedCodeOrOne ==
  \A result \in ResultsSeen :
    IF Present(result.error)
    THEN result.exitCode.type = "number" /\ result.exitCode # Num(0)
    ELSE result.exitCode = Num(0)

----------------------------------------------------------------------------
(* Calls of the functions of cron-commands.ts on their own: the timer does
   not run and the store is empty; probe holds the arguments, and after
   the call what it gave *)

\* everything but probe
rest == <<clock, timerFirings, jobs, runs, idCount, cfg, lastRun, ticks, tickCount,
          firings, ended, adminOps, storeFaults, tickInterval, timers>>

\* nothing runs, and the call to make is call
AtRest(call) ==
  /\ clock = 0
  /\ timerFirings = 0
  /\ jobs = <<>>
  /\ runs = <<>>
  /\ idCount = 0
  /\ cfg = "absent"
  /\ lastRun = [n \in JobNames |-> 0]
  /\ ticks = [t \in Slots |-> Idle]
  /\ tickCount = 0
  /\ firings = <<>>
  /\ ended = {}
  /\ adminOps = 0
  /\ storeFaults = 0
  /\ tickInterval = 0
  /\ timers = {}
  /\ probe = call

\* the decimal numeral of an integer
Numeral(n) ==
  LET digits[k \in 0..(IF n < 0 THEN 0 - n ELSE n)] ==
        IF k < 10 THEN <<Digits[k + 1]>>
        ELSE digits[k \div 10] \o <<Digits[(k % 10) + 1]>>
  IN  IF n < 0 THEN <<"-">> \o digits[0 - n] ELSE digits[n]

\* the forms of a field, each with the values it stands for
Star(min, max) == [text |-> <<"*">>, values |-> min..max]
Single(v) == [text |-> Numeral(v), values |-> {v}]
List(a, b) == [text |-> Numeral(a) \o <<",">> \o Numeral(b), values |-> {a, b}]
Range(a, b) == [text |-> Numeral(a) \o <<"-">> \o Numeral(b), values |-> a..b]

\* the schedule made of five fields
ScheduleOf(fields) == Join([k \in 1..Len(fields) |-> fields[k].text], <<" ">>)

\* the fields of the schedules to match
MinuteForms == {Star(0, 59), Single(30), List(0, 30)}
HourForms == {Star(0, 23), Single(9), Range(9, 17)}
DayForms == {Star(1, 31), Single(15), List(1, 15)}
MonthForms == {Star(1, 12), Single(1), Single(2)}
WeekdayForms == {Star(0, 6), Single(1), Range(1, 5)}

\* the calendar times to match them against: days of January 2024, whose
\* first day is a Monday
CalendarTimes ==
  [day : {1, 8, 15, 20}, hour : {9, 18}, minute : {30, 31}, second : {0, 59}]

\* the time, in ms after the midnight that begins 2024, of a calendar time
TimeAt(cal) ==
  (cal.day - 1) * MS_PER_DAY + (cal.hour * 60 + cal.minute) * MS_PER_MINUTE
  + cal.second * 1000

InitMatch ==
  \E minute \in MinuteForms, hour \in HourForms, day \in DayForms, month \in MonthForms,
     weekday \in WeekdayForms, cal \in CalendarTimes :
    AtRest([op |-> "shouldRunCron", fields |-> <<minute, hour, day, month, weekday>>,
            cal |-> cal, returned |-> FALSE, result |-> FALSE])

\* shouldRunCron(schedule, new Date(ts)) is called
CallShouldRunCron ==
  /\ probe.op = "shouldRunCron"
  /\ ~probe.returned
  /\ probe' = [probe EXCEPT !.returned = TRUE,
                             !.result = shouldRunCron(ScheduleOf(probe.fields),
                                                      TimeAt(probe.cal))]
  /\ UNCHANGED rest

NextMatch == CallShouldRunCron

SpecMatch == InitMatch /\ [][NextMatch]_vars

\* the call of op has returned
Returned(op) == probe.op = op /\ probe.returned

\* the weekday of a day of January 2024: 0 is Sunday
WeekdayInJanuary2024(day) == day % 7

\* C13: shouldRunCron returns true exactly when minute, hour, day of the
\* month, month and weekday of the timestamp are each among the values of
\* their field; a day of the month that matches does not make up for a
\* weekday that does not, nor the other way round
C13_TrueExactlyWhenAllFiveMatch ==
  Returned("shouldRunCron") =>
    (probe.result <=>
       /\ probe.cal.minute \in probe.fields[1].values
       /\ probe.cal.hour \in probe.fields[2].values
       /\ probe.cal.day \in probe.fields[3].values
       /\ 1 \in probe.fields[4].values
       /\ WeekdayInJanuary2024(probe.cal.day) \in probe.fields[5].values)

\* the weekday matched, the day of the month did not, and the answer was no
C13_WeekdayAloneIsNotEnough ==
  /\ Returned("shouldRunCron")
  /\ ~probe.result
  /\ probe.cal.minute \in probe.fields[1].values
  /\ probe.cal.hour \in probe.fields[2].values
  /\ probe.cal.day \notin probe.fields[3].values
  /\ 1 \in probe.fields[4].values
  /\ WeekdayInJanuary2024(probe.cal.day) \in probe.fields[5].values
  /\ probe.fields[5].values # 0..6

----------------------------------------------------------------------------
(* parseCronSchedule on its own *)

MaxStep == 61
MaxValue == 62

\* the bounds of the five fields (lines 337-341), and their names
FieldMin == <<0, 0, 1, 1, 0>>
FieldMax == <<59, 23, 31, 12, 6>>
FieldNames == <<"minute", "hour", "day", "month", "weekday">>

\* the form every Nth value
Step(n) == [text |-> <<"*", "/">> \o Numeral(n)]

\* a schedule of count fields, each a star but the one at pos
StarsBut(count, pos, field) ==
  ScheduleOf([k \in 1..count |-> IF k = pos THEN field ELSE Star(0, 0)])

\* the values around the bounds of the field at pos
AroundBounds(pos) ==
  {FieldMin[pos] - 1, FieldMin[pos], FieldMin[pos] + 1, FieldMax[pos], FieldMax[pos] + 1}

\* the calls to make: their shape, and the schedule that has it
ParseCalls ==
  {[kind |-> "fields", pos |-> 0, a |-> count, b |-> 0,
    schedule |-> StarsBut(count, 0, Star(0, 0))] : count \in 0..7}
  \cup {[kind |-> "step", pos |-> pos, a |-> n, b |-> 0,
         schedule |-> StarsBut(5, pos, Step(n))] : pos \in 1..5, n \in (0 - 2)..MaxStep}
  \cup {[kind |-> "single", pos |-> pos, a |-> v, b |-> 0,
         schedule |-> StarsBut(5, pos, Single(v))] : pos \in 1..5, v \in (0 - 2)..MaxValue}
  \cup UNION {{[kind |-> "list", pos |-> pos, a |-> a, b |-> b,
                schedule |-> StarsBut(5, pos, List(a, b))] :
                  a \in AroundBounds(pos), b \in AroundBounds(pos)} : pos \in 1..5}
  \cup UNION {{[kind |-> "range", pos |-> pos, a |-> a, b |-> b,
                schedule |-> StarsBut(5, pos, Range(a, b))] :
                  a \in AroundBounds(pos), b \in AroundBounds(pos)} : pos \in 1..5}

InitParse ==
  \E call \in ParseCalls :
    AtRest([op |-> "parseCronSchedule", call |-> call, returned |-> FALSE,
            result |-> Thrown])

\* parseCronSchedule(schedule) is called
CallParseCronSchedule ==
  /\ probe.op = "parseCronSchedule"
  /\ ~probe.returned
  /\ probe' = [probe EXCEPT !.returned = TRUE,
                             !.result = parseCronSchedule(probe.call.schedule)]
  /\ UNCHANGED rest

NextParse == CallParseCronSchedule

SpecParse == InitParse /\ [][NextParse]_vars

\* the values min + k * n within min..max
EveryNth(n, min, max) == {v \in min..max : \E k \in 0..max : v = min + k * n}

\* C14: for a step N > 0 in any field, parseCronSchedule gives for that field
\* exactly the values min + k*N of the field's range, min being the lowest
\* value of the field
C14_StepCountsFromTheMinimum ==
  Returned("parseCronSchedule") /\ probe.call.kind = "step" /\ probe.call.a > 0 =>
    /\ ~probe.result.threw
    /\ probe.result[FieldNames[probe.call.pos]] =
         EveryNth(probe.call.a, FieldMin[probe.call.pos], FieldMax[probe.call.pos])

\* "* * */15 * *" gave the days 1, 16 and 31
C14_EveryFifteenthDay ==
  /\ Returned("parseCronSchedule")
  /\ probe.call.kind = "step" /\ probe.call.pos = 3 /\ probe.call.a = 15
  /\ probe.result.day = {1, 16, 31}

\* the call has a shape the parser is to reject
Invalid(call) ==
  \/ call.kind = "fields" /\ call.a # 5
  \/ call.kind = "step" /\ call.a <= 0
  \/ call.kind = "single" /\ call.a \notin FieldMin[call.pos]..FieldMax[call.pos]
  \/ call.kind = "list" /\ {call.a, call.b} \ (FieldMin[call.pos]..FieldMax[call.pos]) # {}
  \/ call.kind = "range" /\ \/ call.a < FieldMin[call.pos]
                             \/ call.b > FieldMax[call.pos]
                             \/ call.a > call.b

\* C15: parseCronSchedule throws when the schedule has not five fields, when
\* a single value, a value of a list or an end of a range is outside the
\* bounds of its field, when a step is zero or negative and when a range is
\* inverted; and the sets it returns hold values within the bounds only
C15_RejectsWhatIsOutOfBounds ==
  Returned("parseCronSchedule") =>
    /\ Invalid(probe.call) => probe.result.threw
    /\ ~probe.result.threw =>
          \A pos \in 1..5 :
            probe.result[FieldNames[pos]] \subseteq FieldMin[pos]..FieldMax[pos]

----------------------------------------------------------------------------
(* The tick loop over a store whose first job has a schedule that does not
   parse *)

MaxOddFirings == 10

\* "invalid"
InvalidWord == <<"i", "n", "v", "a", "l", "i", "d">>

\* schedules parseCronSchedule throws on
MalformedSchedules ==
  {OnceSchedule, <<>>, InvalidWord, StarsBut(4, 0, Star(0, 0)),
   StarsBut(5, 1, Single(60)), StarsBut(5, 1, Step(0)), StarsBut(5, 3, Range(5, 2))}

\* a job without runAt, with or without the once flag
JobOdd(schedule, once) ==
  [name |-> "odd", schedule |-> schedule, session |-> "main", message |-> <<"o">>,
   scripts |-> <<>>, once |-> once, runAt |-> None]

InitMalformed ==
  \E schedule \in MalformedSchedules, once \in BOOLEAN :
    Start(0, <<JobOdd(schedule, once), JobBeat>>, {"absent"})

TimerFireMalformed == TimerFires(MaxOddFirings)

NextMalformed ==
  \/ TimerFireMalformed
  \/ \E t \in Slots : GetCronsResolves(t)
  \/ \E t \in Slots : InjectResolves(t)
  \/ \E t \in Slots : InjectRejects(t)
  \/ \E t \in Slots : AddCronRunResolves(t)

SpecMalformed == InitMalformed /\ [][NextMalformed]_vars

\* C16: a job without runAt whose schedule does not parse is never fired,
\* no tick ends other than by resolving, and no tick passes the job listed
\* after it, which is due every fifth minute, in a minute it is due and has
\* not run in
C16_MalformedNeitherFiresNorBlocks ==
  /\ [](\A a \in Fired : firings[a].name # "odd")
  /\ [](\A e \in ended : e.how = "resolved" /\ e.skippedDue = {})
  /\ [][\A t \in Slots :
          LoopMoves(t) =>
            \A m \in PassedOver(t) :
              ~(/\ ListingOf(t)[m] = JobBeat
                /\ (ticks[t].now \div MS_PER_MINUTE) % 5 = 0
                /\ MinuteBucket(ticks[t].now) > lastRun["beat"])]_vars

\* a tick after the first has passed the job with the literal "once" as its
\* schedule and no runAt, and has fired the job listed after it
C16_FiredTheJobAfterIt ==
  \E t \in Slots :
    /\ ticks[t].pc = "inject" /\ ticks[t].tid > 1
    /\ ticks[t].i = 2
    /\ ticks[t].crons[1] = JobOdd(OnceSchedule, TRUE)
    /\ ticks[t].crons[2] = JobBeat

----------------------------------------------------------------------------
(* Time specifications and one-time jobs *)

\* "now"
NowWord == <<"n", "o", "w">>

\* whether s is made of digits, at least one
AllDigits(s) == s # <<>> /\ \A k \in 1..Len(s) : IsDigit(s[k])

\* spec.match(/^\+(\d+)([smhd])$/)
MatchesRelative(spec) ==
  /\ Len(spec) >= 3
  /\ spec[1] = "+"
  /\ AllDigits(SubSeq(spec, 2, Len(spec) - 1))
  /\ spec[Len(spec)] \in {"s", "m", "h", "d"}

\* a variant of Mult that takes every unit for seconds
MultInSeconds(unit) == 1000

\* { s: 1000, m: 60000, h: 3600000, d: 86400000 }[unit]
Mult(unit) ==
  CASE unit = "s" -> 1000
    [] unit = "m" -> MS_PER_MINUTE
    [] unit = "h" -> 60 * MS_PER_MINUTE
    [] unit = "d" -> MS_PER_DAY

\* /^\d{10,13}$/.test(spec)
MatchesEpoch(spec) == AllDigits(spec) /\ Len(spec) \in 10..13

\* the seconds from the Unix epoch to time 0 of the model, in a zone without
\* offset
OriginSeconds == OriginDay * 24 * 60 * 60

\* s without its leading zeros
Significant(s) ==
  LET zeros == CHOOSE k \in 0..Len(s) :
                 /\ \A m \in 1..k : s[m] = "0"
                 /\ k < Len(s) => s[k + 1] # "0"
  IN  SubSeq(s, zeros + 1, Len(s))

\* ts < 1e12 ? ts * 1000 : ts, as a decimal numeral: a value below 10^12 has
\* at most twelve digits and counts seconds, another one counts milliseconds
EpochValue(spec) ==
  IF Len(Significant(spec)) > 12 THEN Significant(spec)
  ELSE IF Significant(spec) = <<>> THEN <<"0">>
  ELSE Significant(spec) \o <<"0", "0", "0">>

\* that value as a time of the model, for a numeral whose time is within the
\* time the model spans
EpochTime(spec) ==
  CHOOSE r \in {(DigitsValue(SubSeq(v, 1, Len(v) - 3)) - OriginSeconds) * 1000
                 + DigitsValue(SubSeq(v, Len(v) - 2, Len(v))) :
                   v \in {EpochValue(spec)}} : TRUE

\* /^\d{1,2}:\d{2}$/.test(spec)
MatchesClock(spec) ==
  \E colon \in {2, 3} :
    /\ Len(spec) = colon + 2
    /\ spec[colon] = ":"
    /\ AllDigits(SubSeq(spec, 1, colon - 1))
    /\ AllDigits(SubSeq(spec, colon + 1, Len(spec)))

\* today at h:m, or the day after when that is before now (lines 379-383)
ClockTime(spec, now) ==
  CHOOSE r \in {IF d < now THEN d + MS_PER_DAY ELSE d :
                  d \in {(now \div MS_PER_DAY) * MS_PER_DAY
                         + ToNumber(Split(spec, <<":">>)[1]) * 60 * MS_PER_MINUTE
                         + ToNumber(Split(spec, <<":">>)[2]) * MS_PER_MINUTE}} : TRUE

\* "2024-01-"
January2024 == <<"2", "0", "2", "4", "-", "0", "1", "-">>

\* Date.parse(spec) for the form 2024-01-DDTHH:MM:SSZ, NaN for the other
\* strings the model calls it with, none of which is a date
DateParse(spec) ==
  IF /\ Len(spec) = 20
     /\ StartsWith(spec, January2024)
     /\ AllDigits(SubSeq(spec, 9, 10)) /\ spec[11] = "T"
     /\ AllDigits(SubSeq(spec, 12, 13)) /\ spec[14] = ":"
     /\ AllDigits(SubSeq(spec, 15, 16)) /\ spec[17] = ":"
     /\ AllDigits(SubSeq(spec, 18, 19)) /\ spec[20] = "Z"
     /\ DigitsValue(SubSeq(spec, 9, 10)) \in 1..24
     /\ DigitsValue(SubSeq(spec, 12, 13)) < 24
     /\ DigitsValue(SubSeq(spec, 15, 16)) < 60
     /\ DigitsValue(SubSeq(spec, 18, 19)) < 60
  THEN (DigitsValue(SubSeq(spec, 9, 10)) - 1) * MS_PER_DAY
       + (DigitsValue(SubSeq(spec, 12, 13)) * 60 + DigitsValue(SubSeq(spec, 15, 16)))
         * MS_PER_MINUTE
       + DigitsValue(SubSeq(spec, 18, 19)) * 1000
  ELSE NaN

\* parseTimeSpec(spec) called at time now: the time it returns, or None when
\* it throws
parseTimeSpec(spec, now) ==
  IF spec = NowWord THEN Some(now)
  ELSE IF MatchesRelative(spec)
  THEN Some(now + ParseInt(SubSeq(spec, 2, Len(spec) - 1)) * Mult(spec[Len(spec)]))
  ELSE IF MatchesEpoch(spec) THEN Some(EpochTime(spec))
  ELSE IF MatchesClock(spec) THEN Some(ClockTime(spec, now))
  ELSE IF DateParse(spec) # NaN THEN Some(DateParse(spec))
  ELSE None

\* `once-${Date.now()}`
OnceName(now) == "once-" \o ToString(now)

\* a variant of createOnceJob that leaves runAt out
createOnceJobWithoutRunAt(time, session, message, now, later) ==
  IF Present(parseTimeSpec(time, now))
  THEN Some([name |-> OnceName(later), schedule |-> OnceSchedule, session |-> session,
             message |-> message, scripts |-> <<>>, once |-> TRUE, runAt |-> None])
  ELSE None

\* createOnceJob(time, session, message): parseTimeSpec reads the clock at
\* now, the name is made of the clock read at later; None when it throws
createOnceJob(time, session, message, now, later) ==
  CHOOSE r \in {IF Present(runAt)
                 THEN Some([name |-> OnceName(later), schedule |-> OnceSchedule,
                            session |-> session, message |-> message,
                            scripts |-> <<>>, once |-> TRUE, runAt |-> runAt])
                 ELSE None : runAt \in {parseTimeSpec(time, now)}} : TRUE

\* the forms of a time specification
Relative(n, unit) == <<"+">> \o Numeral(n) \o <<unit>>
Clock(h, m) == Numeral(h) \o <<":">> \o (IF m < 10 THEN <<"0">> ELSE <<>>) \o Numeral(m)
EpochSeconds(ts) == Numeral(OriginSeconds + ts \div 1000)
IsoJanuary(day, hour) ==
  January2024 \o (IF day < 10 THEN <<"0">> ELSE <<>>) \o Numeral(day) \o <<"T">>
  \o (IF hour < 10 THEN <<"0">> ELSE <<>>) \o Numeral(hour)
  \o <<":", "0", "0", ":", "0", "0", "Z">>

\* "not-a-time"
NotATime == <<"n", "o", "t", "-", "a", "-", "t", "i", "m", "e">>

MaxAmount == 3

\* the specifications that resolve to a time
ValidTimeSpecs ==
  {NowWord}
  \cup {Relative(n, unit) : n \in 0..MaxAmount, unit \in {"s", "m", "h", "d"}}
  \cup {Clock(9, 5), Clock(14, 30), Clock(0, 0)}
  \cup {EpochSeconds(MS_PER_DAY), IsoJanuary(2, 10)}

\* specifications that resolve to none: words that are no date, and the
\* empty string
InvalidTimeSpecs == {NotATime, <<"s", "o", "o", "n">>, <<>>}

\* the times of the calls: midnight, the second tick, the afternoon
CallTimes == {0, TICK_INTERVAL_MS, 15 * 60 * MS_PER_MINUTE + 1}

Sessions == {"main", "ops"}

Messages == {<<"h", "i">>, <<"{", "{", "x", "}", "}">>}

InitOnce ==
  \E time \in ValidTimeSpecs \cup InvalidTimeSpecs, session \in Sessions,
     message \in Messages, now \in CallTimes, later \in 0..1 :
    AtRest([op |-> "createOnceJob", time |-> time, session |-> session,
            message |-> message, now |-> now, later |-> now + later,
            returned |-> FALSE, result |-> None])

\* createOnceJob(time, session, message) is called
CallCreateOnceJob ==
  /\ probe.op = "createOnceJob"
  /\ ~probe.returned
  /\ probe' = [probe EXCEPT !.returned = TRUE,
                             !.result = createOnceJob(probe.time, probe.session,
                                                      probe.message, probe.now,
                                                      probe.later)]
  /\ UNCHANGED rest

NextOnce == CallCreateOnceJob

SpecOnce == InitOnce /\ [][NextOnce]_vars

\* C17: when parseTimeSpec resolves the time, createOnceJob gives a job with
\* once = true, the schedule "once", the session and the message given and
\* that time as runAt; when parseTimeSpec throws the call gives no job
C17_OnceJobCarriesResolvedTime ==
  Returned("createOnceJob") =>
    IF Present(parseTimeSpec(probe.time, probe.now))
    THEN /\ Present(probe.result)
         /\ probe.result[1].once
         /\ probe.result[1].schedule = OnceSchedule
         /\ probe.result[1].session = probe.session
         /\ probe.result[1].message = probe.message
         /\ probe.result[1].runAt = parseTimeSpec(probe.time, probe.now)
    ELSE ~Present(probe.result)

\* "+3h" asked in the afternoon gave a job due three hours later
C17_ThreeHoursFromNow ==
  /\ Returned("createOnceJob")
  /\ probe.time = <<"+", "3", "h">>
  /\ probe.now = 15 * 60 * MS_PER_MINUTE + 1
  /\ Present(probe.result)
  /\ probe.result[1].once
  /\ probe.result[1].runAt = Some(18 * 60 * MS_PER_MINUTE + 1)

----------------------------------------------------------------------------
(* The administrative surface: the CLI subcommands add, once and remove and
   the tools cron_schedule, cron_once and cron_cancel, called one after
   another on a store that starts empty, while time passes *)

MaxSurfaceOps == 3
MaxSurfaceClock == 1

\* what the tick loop holds, which the surface leaves alone
tickState == <<timerFirings, runs, idCount, cfg, lastRun, ticks, tickCount, firings,
               ended, storeFaults, tickInterval, timers>>

\* the names, schedules and script lists the callers give
SurfaceNames == {"beat", OnceName(0)}
SurfaceSchedules == {EveryFiveMinutes, OnceSchedule}
SurfaceScripts == {<<>>, <<ScriptX>>}
SurfaceTimes == {NowWord, <<"+", "1", "m">>, NotATime}

\* the job is handed to addCron; asked is the name or the time specification
\* the caller gave
Store(job, via, asked) ==
  /\ adminOps < MaxSurfaceOps
  /\ adminOps' = adminOps + 1
  /\ jobs' = addCron(jobs, job)
  /\ probe' = [op |-> via, asked |-> asked, job |-> Some(job),
               previous |-> RepoFindById(jobs, job.name), error |-> FALSE,
               raised |-> FALSE]
  /\ UNCHANGED <<clock, tickState>>

\* the call ends with an error and has stored nothing: the error of
\* parseTimeSpec leaves the once subcommand (line 129), and the tool cron_once
\* catches it and returns an isError result (part_000 81-84)
Refuse(via, asked) ==
  /\ adminOps < MaxSurfaceOps
  /\ adminOps' = adminOps + 1
  /\ probe' = [op |-> via, asked |-> asked, job |-> None, previous |-> None,
               error |-> TRUE, raised |-> via = "cli once"]
  /\ UNCHANGED <<clock, jobs, tickState>>

\* wopr cron add <name> <schedule> <session> <message> [--once]
CliAdd(name, schedule, session, message, once) ==
  Store([name |-> name, schedule |-> schedule, session |-> session, message |-> message,
         scripts |-> <<>>, once |-> once, runAt |-> None], "cli add", name)

\* wopr cron once <time> <session> <message>
CliOnce(time, session, message) ==
  \E job \in {createOnceJob(time, session, message, clock, clock)} :
    IF Present(job) THEN Store(job[1], "cli once", time) ELSE Refuse("cli once", time)

\* the tool cron_schedule
CronSchedule(name, schedule, session, message, scripts) ==
  Store([name |-> name, schedule |-> schedule, session |-> session, message |-> message,
         scripts |-> scripts, once |-> FALSE, runAt |-> None], "cron_schedule", name)

\* the tool cron_once
CronOnce(time, session, message) ==
  \E job \in {createOnceJob(time, session, message, clock, clock)} :
    IF Present(job) THEN Store(job[1], "cron_once", time) ELSE Refuse("cron_once", time)

\* a variant of Cancel that reports success whether or not the job was there
CancelReportingSuccess(name, via) ==
  /\ adminOps < MaxSurfaceOps
  /\ adminOps' = adminOps + 1
  /\ jobs' = removeCron(jobs, name)
  /\ probe' = [op |-> via, asked |-> name, job |-> None,
               previous |-> RepoFindById(jobs, name), error |-> FALSE, raised |-> FALSE]
  /\ UNCHANGED <<clock, tickState>>

\* wopr cron remove <name> and the tool cron_cancel, which returns an isError
\* result when removeCron resolves with false (part_000 113-115)
Cancel(name, via) ==
  /\ adminOps < MaxSurfaceOps
  /\ adminOps' = adminOps + 1
  /\ jobs' = removeCron(jobs, name)
  /\ probe' = [op |-> via, asked |-> name, job |-> None,
               previous |-> RepoFindById(jobs, name),
               error |-> via = "cron_cancel" /\ ~Removed(jobs, name), raised |-> FALSE]
  /\ UNCHANGED <<clock, tickState>>

\* a millisecond passes
Pass ==
  /\ clock < MaxSurfaceClock
  /\ clock' = clock + 1
  /\ UNCHANGED <<probe, jobs, adminOps, tickState>>

InitSurface == AtRest(NoCall)

NextSurface ==
  \/ \E name \in SurfaceNames, schedule \in SurfaceSchedules, once \in BOOLEAN :
        CliAdd(name, schedule, "main", <<"h", "i">>, once)
  \/ \E time \in SurfaceTimes, session \in Sessions : CliOnce(time, session, <<"h", "i">>)
  \/ \E name \in SurfaceNames, schedule \in SurfaceSchedules, scripts \in SurfaceScripts :
        CronSchedule(name, schedule, "main", <<"h", "i">>, scripts)
  \/ \E time \in SurfaceTimes, session \in Sessions : CronOnce(time, session, <<"h", "i">>)
  \/ \E name \in SurfaceNames, via \in {"cli remove", "cron_cancel"} : Cancel(name, via)
  \/ Pass

SpecSurface == InitSurface /\ [][NextSurface]_vars

\* the step is a call that handed a job to addCron
Stores == adminOps' = adminOps + 1 /\ Present(probe'.job)

\* C18: a call of the once subcommand or of cron_once leaves every one-time
\* job of the store as it was
C18_OnceCallsKeepPendingJobs ==
  [][Stores /\ probe'.op \in {"cli once", "cron_once"} =>
       \A k \in 1..Len(jobs) :
         jobs[k].once /\ HasRunAt(jobs[k]) =>
           \E m \in 1..Len(jobs') : jobs'[m] = jobs[k]]_vars

\* C19: every job of the store with once = true has runAt
C19_OnceJobsCarryRunAt ==
  \A k \in 1..Len(jobs) : jobs[k].once => HasRunAt(jobs[k])

\* the jobs of a list whose name is not name
Others(list, name) == SelectSeq(list, LAMBDA job : job.name # name)

----------------------------------------------------------------------------
(* resolveScriptTemplates on its own: the message is made of pieces, each a
   placeholder or plain text, and the results are one or two *)

MaxPieces == 2
MaxResults == 2

\* the pieces of a message: the placeholders of x, of y and of z, and text
Pieces ==
  {<<"{", "{", "x", "}", "}">>, <<"{", "{", "y", "}", "}">>, <<"{", "{", "z", "}", "}">>,
   <<"a">>}

\* what a script has written: nothing, a line, a line and an empty line, and
\* the placeholder of y
TemplateStdouts ==
  {<<>>, <<"4", "\n">>, <<"7", "\n", "\n">>, <<"{", "{", "y", "}", "}">>}

\* the error of a result: none, or a message
TemplateErrors == {None, Some(<<"E">>)}

\* the results of the scripts x and y
TemplateResults ==
  [name : {<<"x">>, <<"y">>}, stdout : TemplateStdouts, error : TemplateErrors]

\* the text the pieces make
Concat(pieces) ==
  LET text[k \in 0..Len(pieces)] == IF k = 0 THEN <<>> ELSE text[k - 1] \o pieces[k]
  IN  text[Len(pieces)]

InitTemplates ==
  \E n \in 0..MaxPieces, r \in 1..MaxResults :
    \E pieces \in [1..n -> Pieces], results \in [1..r -> TemplateResults] :
      AtRest([op |-> "resolveScriptTemplates", pieces |-> pieces, results |-> results,
              returned |-> FALSE, result |-> <<>>])

\* resolveScriptTemplates(message, results) is called
CallResolveScriptTemplates ==
  /\ probe.op = "resolveScriptTemplates"
  /\ ~probe.returned
  /\ probe' = [probe EXCEPT !.returned = TRUE,
                             !.result = resolveScriptTemplates(Concat(probe.pieces),
                                                               probe.results)]
  /\ UNCHANGED rest

NextTemplates == CallResolveScriptTemplates

SpecTemplates == InitTemplates /\ [][NextTemplates]_vars

\* the text the statement puts in the place of the placeholder of a result
TextFor(result) ==
  IF Present(result.error)
  THEN IF result.stdout # <<>>
       THEN result.stdout \o <<"\n">> \o ErrorOpen \o result.error[1] \o <<"]">>
       ELSE ErrorOpen \o result.error[1] \o <<"]">>
  ELSE IF result.stdout # <<>> /\ result.stdout[Len(result.stdout)] = "\n"
  THEN SubSeq(result.stdout, 1, Len(result.stdout) - 1)
  ELSE result.stdout

\* the message with every piece that is the placeholder of one of the results
\* replaced by the text for that result, and every other piece as it is
Substituted(pieces, results) ==
  Concat([k \in 1..Len(pieces) |->
            IF \E j \in 1..Len(results) : pieces[k] = Placeholder(results[j])
            THEN TextFor(results[CHOOSE j \in 1..Len(results) :
                                   pieces[k] = Placeholder(results[j])])
            ELSE pieces[k]])

\* the names of the results differ from one another
DistinctNames(results) ==
  \A j, k \in 1..Len(results) : j # k => results[j].name # results[k].name

\* C21: for results of distinct names, resolveScriptTemplates returns the
\* message with every placeholder of a result replaced by the stdout of the
\* result less one trailing newline, or by stdout, a newline and the error
\* marker when the result has an error, and with all other text, the
\* placeholders of no result among it, as it was
C21_EveryPlaceholderByItsOutput ==
  Returned("resolveScriptTemplates") /\ DistinctNames(probe.results) =>
    probe.result = Substituted(probe.pieces, probe.results)

\* C22: when two results have the same name, the placeholder of that name is
\* replaced by the text for the second of them
C22_LaterOfTwoWins ==
  (/\ Returned("resolveScriptTemplates")
   /\ Len(probe.results) = 2
   /\ probe.results[1].name = probe.results[2].name) =>
    probe.result = Substituted(probe.pieces, <<probe.results[2]>>)

\* a list in the opposite order
Reverse(list) == [k \in 1..Len(list) |-> list[Len(list) + 1 - k]]

\* C23: for results of distinct names, the results in the opposite order give
\* the same text
C23_SameForEveryOrder ==
  Returned("resolveScriptTemplates") /\ DistinctNames(probe.results) =>
    probe.result = resolveScriptTemplates(Concat(probe.pieces), Reverse(probe.results))

----------------------------------------------------------------------------
(* parseTimeSpec on its own: relative times, "now", clock times, and epoch
   numerals of 10 to 13 digits, whose values are kept as numerals *)

\* the amounts of the relative times: 24 days is the most the times of the
\* model hold
RelativeAmounts == {0, 1, 2, 3, 10, 24}

\* leading zeros of an amount or of an hour
Paddings == {<<>>, <<"0">>}

\* hours and minutes of the clock times, those of no clock among them
ClockHours == {0, 7, 9, 15, 23, 24, 25}
ClockMinutes == {0, 5, 59, 60, 99}

MaxEpochDigits == 13

\* n times the digit d
Repeat(d, n) == [k \in 1..n |-> d]

\* the first n digits of 1234567890123
Counting(n) == [k \in 1..n |-> Digits[(k % 10) + 1]]

\* the numerals of 10 to 13 digits the model asks for: a first digit and
\* zeros, nines or counted digits after it
EpochNumerals ==
  {<<first>> \o tail : first \in {"0", "1", "9"},
                       tail \in UNION {{Repeat("0", n - 1), Repeat("9", n - 1), Counting(n - 1)} :
                                         n \in 10..MaxEpochDigits}}

TimeCalls ==
  {[form |-> "now", spec |-> NowWord, amount |-> 0, unit |-> "s", hour |-> 0, minute |-> 0]}
  \cup {[form |-> "relative", spec |-> <<"+">> \o zeros \o Numeral(n) \o <<unit>>,
         amount |-> n, unit |-> unit, hour |-> 0, minute |-> 0] :
           n \in RelativeAmounts, unit \in {"s", "m", "h", "d"}, zeros \in Paddings}
  \cup {[form |-> "clock", spec |-> Clock(h, m), amount |-> 0, unit |-> "s",
         hour |-> h, minute |-> m] : h \in ClockHours, m \in ClockMinutes}
  \cup {[form |-> "clock", spec |-> <<"0">> \o Clock(h, m), amount |-> 0, unit |-> "s",
         hour |-> h, minute |-> m] : h \in {n \in ClockHours : n < 10}, m \in ClockMinutes}

InitTime ==
  \/ \E call \in TimeCalls, now \in CallTimes :
       AtRest([op |-> "parseTimeSpec", call |-> call, now |-> now,
               returned |-> FALSE, result |-> None])
  \/ \E spec \in EpochNumerals :
       AtRest([op |-> "parseTimeSpec of a numeral", spec |-> spec,
               returned |-> FALSE, result |-> <<>>])

\* parseTimeSpec(spec) is called at the time now
CallParseTimeSpec ==
  /\ probe.op = "parseTimeSpec"
  /\ ~probe.returned
  /\ probe' = [probe EXCEPT !.returned = TRUE,
                             !.result = parseTimeSpec(probe.call.spec, probe.now)]
  /\ UNCHANGED rest

\* parseTimeSpec(spec) is called with a numeral of 10 to 13 digits, which is
\* not "now" and does not start with "+", and returns at line 376
CallParseTimeSpecOfNumeral ==
  /\ probe.op = "parseTimeSpec of a numeral"
  /\ ~probe.returned
  /\ probe.spec # NowWord /\ ~MatchesRelative(probe.spec) /\ MatchesEpoch(probe.spec)
  /\ probe' = [probe EXCEPT !.returned = TRUE, !.result = EpochValue(probe.spec)]
  /\ UNCHANGED rest

NextTime == CallParseTimeSpec \/ CallParseTimeSpecOfNumeral

SpecTime == InitTime /\ [][NextTime]_vars

\* C24: "+N" with the unit s, m, h or d gives the time of the call plus N
\* times 1000, 60000, 3600000 or 86400000, and "now" gives the time of the call
C24_RelativeTimesAddToNow ==
  Returned("parseTimeSpec") =>
    /\ probe.call.form = "now" => probe.result = Some(probe.now)
    /\ probe.call.form = "relative" =>
          probe.result = Some(probe.now + probe.call.amount
                                          * (CASE probe.call.unit = "s" -> 1000
                                               [] probe.call.unit = "m" -> 60000
                                               [] probe.call.unit = "h" -> 3600000
                                               [] probe.call.unit = "d" -> 86400000))

\* "+010h" asked in the afternoon is answered with ten hours later
C24_TenHoursFromTheAfternoon ==
  /\ Returned("parseTimeSpec")
  /\ probe.call.spec = <<"+", "0", "1", "0", "h">>
  /\ probe.now = 15 * 60 * MS_PER_MINUTE + 1
  /\ probe.result = Some(25 * 60 * MS_PER_MINUTE + 1)

\* C25: a numeral of 10 to 13 digits is multiplied by 1000 when its value is
\* below 10^12 and returned as it is otherwise; every numeral of 13 digits is
\* returned as it is and every numeral of 10 digits multiplied by 1000
C25_ThirteenDigitsAreMilliseconds ==
  Returned("parseTimeSpec of a numeral") =>
    /\ probe.result = (IF \E k \in 1..(Len(probe.spec) - 12) : probe.spec[k] # "0"
                       THEN Significant(probe.spec)
                       ELSE IF Significant(probe.spec) = <<>> THEN <<"0">>
                       ELSE Significant(probe.spec) \o <<"0", "0", "0">>)
    /\ Len(probe.spec) = 13 => probe.result = Significant(probe.spec)
    /\ Len(probe.spec) = 10 =>
          probe.result = (IF Significant(probe.spec) = <<>> THEN <<"0">>
                          ELSE Significant(probe.spec) \o <<"0", "0", "0">>)

\* C26: a clock time H:MM or HH:MM gives a time whose hour and minute are H
\* and MM, which is not before the time of the call, on the day of the call
\* when H:MM has not passed and on the day after it otherwise
C26_NextOccurrenceOfClockTime ==
  Returned("parseTimeSpec") /\ probe.call.form = "clock" =>
    /\ Present(probe.result)
    /\ DateOf(probe.result[1]).getHours = probe.call.hour
    /\ DateOf(probe.result[1]).getMinutes = probe.call.minute
    /\ probe.result[1] >= probe.now
    /\ probe.result[1] \div MS_PER_DAY
         = probe.now \div MS_PER_DAY
           + (IF (probe.call.hour * 60 + probe.call.minute) * MS_PER_MINUTE
                  >= probe.now % MS_PER_DAY THEN 0 ELSE 1)

----------------------------------------------------------------------------
(* The life of the plugin: init and shutdown are called from outside, on an
   empty store, and time passes in steps of ten seconds between the calls *)

MaxLifecycleCalls == 3
MaxLifecycleFirings == 3
MaxLifecycleSteps == 9

\* init after initCronStorage has resolved (index.ts 27-37): a tick loop is
\* created, with a lastRun map of its own, the interval timer is set and kept
\* in tickInterval, and cronTick is called at once
PluginInit ==
  /\ adminOps < MaxLifecycleCalls
  /\ \E t \in Slots : ticks[t].pc = "idle"
  /\ adminOps' = adminOps + 1
  /\ lastRun' = [n \in JobNames |-> 0]
  /\ tickInterval' = tickCount + 1
  /\ timers' = timers \cup {[id |-> tickCount + 1, due |-> clock + TICK_INTERVAL_MS]}
  /\ tickCount' = tickCount + 1
  /\ ticks' = [ticks EXCEPT ![FreeSlot] =
                 [Idle EXCEPT !.pc = "list", !.tid = tickCount + 1, !.now = clock]]
  /\ probe' = [op |-> "init", error |-> FALSE]
  /\ UNCHANGED <<clock, timerFirings, jobs, runs, idCount, cfg, firings, ended, storeFaults>>

\* init when initCronStorage rejects (line 25): init rejects before the timer
InitStorageFails ==
  /\ adminOps < MaxLifecycleCalls
  /\ adminOps' = adminOps + 1
  /\ probe' = [op |-> "init", error |-> TRUE]
  /\ UNCHANGED <<clock, jobs, tickState>>

\* a variant of PluginShutdown that forgets the timer without clearing it
PluginShutdownForgetting ==
  /\ adminOps < MaxLifecycleCalls
  /\ adminOps' = adminOps + 1
  /\ tickInterval' = 0
  /\ probe' = [op |-> "shutdown", error |-> FALSE]
  /\ UNCHANGED <<clock, timerFirings, jobs, runs, idCount, cfg, lastRun, ticks, tickCount,
                 firings, ended, storeFaults, timers>>

\* shutdown (index.ts 40-45)
PluginShutdown ==
  /\ adminOps < MaxLifecycleCalls
  /\ adminOps' = adminOps + 1
  /\ IF tickInterval # 0
     THEN /\ timers' = {timer \in timers : timer.id # tickInterval}
          /\ tickInterval' = 0
     ELSE UNCHANGED <<tickInterval, timers>>
  /\ probe' = [op |-> "shutdown", error |-> FALSE]
  /\ UNCHANGED <<clock, timerFirings, jobs, runs, idCount, cfg, lastRun, ticks, tickCount,
                 firings, ended, storeFaults>>

\* a third of the interval passes, ten seconds, in which no timer fires
Elapse ==
  /\ clock' = clock + TICK_INTERVAL_MS \div 3
  /\ clock' <= MaxLifecycleSteps * (TICK_INTERVAL_MS \div 3)
  /\ \A timer \in timers : timer.due > clock'
  /\ UNCHANGED <<probe, jobs, adminOps, tickState>>

TimerFireLifecycle == TimerFires(MaxLifecycleFirings)

InitLifecycle == AtRest(NoCall)

NextLifecycle ==
  \/ PluginInit
  \/ InitStorageFails
  \/ PluginShutdown
  \/ TimerFireLifecycle
  \/ \E t \in Slots : GetCronsResolves(t)
  \/ Elapse

SpecLifecycle == InitLifecycle /\ [][NextLifecycle]_vars

\* the step is the call of op
Calls(op) == adminOps' = adminOps + 1 /\ probe'.op = op /\ ~probe'.error

\* C27: init starts one tick at once and sets a timer that starts one tick
\* 30 s later and one every 30 s after that; after the shutdown that follows
\* an init the timer of that init is gone, and with no timer left no tick
\* starts but that of another init; shutdown without a timer changes nothing
\* and does not fail
C27_TicksFromInitToShutdown ==
  [][/\ Calls("init") =>
          /\ tickCount' = tickCount + 1 /\ clock' = clock
          /\ [id |-> tickInterval', due |-> clock + 30000] \in timers'
     /\ timerFirings' # timerFirings =>
          \E timer \in timers :
            /\ tickCount' = tickCount + 1 /\ clock' = timer.due
            /\ timers' = (timers \ {timer}) \cup {[id |-> timer.id, due |-> clock' + 30000]}
     /\ adminOps' # adminOps /\ probe'.op = "shutdown" =>
          /\ ~probe'.error /\ tickInterval' = 0 /\ tickCount' = tickCount
          /\ \A timer \in timers' : timer.id # tickInterval
          /\ tickInterval = 0 => timers' = timers
     /\ timers = {} /\ ~Calls("init") => tickCount' = tickCount
     /\ \A timer \in timers' :
          timer \in timers \/ timer.id > tickCount \/ timerFirings' # timerFirings
    ]_vars

\* init at 0, a tick of the timer at 0:00:30, shutdown, and a minute later no
\* other tick has started
C27_QuietMinuteAfterShutdown ==
  /\ probe.op = "shutdown"
  /\ adminOps = 2
  /\ tickCount = 2 /\ timerFirings = 1
  /\ timers = {}
  /\ clock = 90000

----------------------------------------------------------------------------
(* The tools cron_cancel and cron_once, among the calls of SpecSurface *)

\* the step is a call of the tool
ToolCall(tool) == adminOps' = adminOps + 1 /\ probe'.op = tool

\* C28: cron_cancel does not raise, returns an isError result exactly when no
\* job of the name was in the store, and leaves the store without the job of
\* that name and with all others; cron_once with a time that cannot be parsed
\* does not raise, returns an isError result and leaves the store as it was
C28_ToolsReportInsteadOfRaising ==
  [][/\ ToolCall("cron_cancel") =>
          /\ ~probe'.raised
          /\ probe'.error <=> probe'.asked \notin NamesOf(jobs)
          /\ jobs' = Others(jobs, probe'.asked)
     /\ ToolCall("cron_once") /\ probe'.asked \in InvalidTimeSpecs =>
          ~probe'.raised /\ probe'.error /\ jobs' = jobs
    ]_vars

\* cron_cancel of a name that is not in the store, which holds another job
C28_CancelOfMissingJob ==
  /\ probe.op = "cron_cancel"
  /\ probe.error /\ ~probe.raised
  /\ probe.asked \notin NamesOf(jobs)
  /\ Len(jobs) = 1

----------------------------------------------------------------------------
(* executeCronScript on its own: what it makes of the output of the process.
   An output is held by its length and by whether the truncation marker
   follows it *)

MAX_SCRIPT_OUTPUT == 50000

\* the lengths of what a process writes to stdout or stderr before it ends,
\* up to the 1 MB of maxBuffer
OutputLengths == {0, 1, MAX_SCRIPT_OUTPUT - 1, MAX_SCRIPT_OUTPUT, MAX_SCRIPT_OUTPUT + 1,
                  1024 * 1024}

\* how the process ends: with code 0, with another code, or killed at the timeout
ProcessEndings == {"exit 0", "exit 2", "timeout"}

\* output.length > MAX_SCRIPT_OUTPUT ? `${output.substring(0, MAX_SCRIPT_OUTPUT)}\n...
\* (truncated)` : output
Truncated(length) ==
  IF length > MAX_SCRIPT_OUTPUT THEN [chars |-> MAX_SCRIPT_OUTPUT, marker |-> TRUE]
  ELSE [chars |-> length, marker |-> FALSE]

\* error.stdout ?? "", error.stderr ?? "": the output as the error carries it
AsCarried(length) == [chars |-> length, marker |-> FALSE]

\* executeCronScript(script) for a process that ends in the given way after
\* writing stdout and stderr of the given lengths
executeCronScript(ending, stdout, stderr) ==
  IF ending = "exit 0"
  THEN [exitCode |-> Num(0), stdout |-> Truncated(stdout), stderr |-> Truncated(stderr),
        error |-> None]
  ELSE [exitCode |-> ExitCodeOf(IF ending = "timeout" THEN None ELSE Some(Num(2))),
        stdout |-> AsCarried(stdout), stderr |-> AsCarried(stderr),
        error |-> Some(<<"E">>)]

InitOutput ==
  \E ending \in ProcessEndings, stdout \in OutputLengths, stderr \in OutputLengths :
    AtRest([op |-> "executeCronScript", ending |-> ending, stdout |-> stdout,
            stderr |-> stderr, returned |-> FALSE, result |-> None])

\* executeCronScript(script) is called and the process ends
CallExecuteCronScript ==
  /\ probe.op = "executeCronScript"
  /\ ~probe.returned
  /\ probe' = [probe EXCEPT !.returned = TRUE,
                             !.result = Some(executeCronScript(probe.ending, probe.stdout,
                                                               probe.stderr))]
  /\ UNCHANGED rest

NextOutput == CallExecuteCronScript

SpecOutput == InitOutput /\ [][NextOutput]_vars

\* C29: stdout and stderr of every result hold at most 50,000 characters of
\* what the process wrote, and the truncation marker follows exactly when
\* the process wrote more
C29_OutputsCappedWithMarker ==
  Returned("executeCronScript") =>
    /\ probe.result[1].stdout.chars <= 50000
    /\ probe.result[1].stdout.marker <=> probe.stdout > 50000
    /\ probe.result[1].stderr.chars <= 50000
    /\ probe.result[1].stderr.marker <=> probe.stderr > 50000

----------------------------------------------------------------------------
(* The run records against what was delivered *)

\* C30: the message of every run record, of a success or of a failure, is the
\* text that was handed to ctx.inject in that firing, and the record has
\* script results exactly when scripts ran in that firing
C30_RecordTellsWhatWasDelivered ==
  \A a \in Fired :
    \A r \in RecordsOf(firings[a]) :
      /\ firings[a].injected
      /\ firings[a].message = Some(runs[r].message)
      /\ Present(runs[r].scriptResults) <=> firings[a].scriptsRun > 0

----------------------------------------------------------------------------
(* The tick loop over a store whose job has the once flag or not and runAt
   or not, in all four ways *)

MaxKindFirings == 11

\* the job, due every fifth minute by its schedule, and at 0:01:30 by its
\* runAt when it has one
JobOfKind(once, runAt) ==
  [name |-> "odd", schedule |-> EveryFiveMinutes, session |-> "main", message |-> <<"o">>,
   scripts |-> <<>>, once |-> once, runAt |-> runAt]

InitKinds ==
  \E once \in BOOLEAN, runAt \in {None, Some(3 * TICK_INTERVAL_MS)} :
    Start(0, <<JobOfKind(once, runAt)>>, {"absent"})

TimerFireKinds == TimerFires(MaxKindFirings)

NextKinds ==
  \/ TimerFireKinds
  \/ \E t \in Slots : GetCronsResolves(t)
  \/ \E t \in Slots : InjectResolves(t)
  \/ \E t \in Slots : InjectRejects(t)
  \/ \E t \in Slots : AddCronRunResolves(t)
  \/ \E t \in Slots : RemoveCronResolves(t)

SpecKinds == InitKinds /\ [][NextKinds]_vars

\* the job has the once flag and runAt
OneTime(job) == job.once /\ Present(job.runAt)

\* the rule the statement gives for the job at the time nowTs: the one-time
\* rule for a job with once and runAt, the recurring rule for every other
DueByRule(job, nowTs) ==
  IF OneTime(job)
  THEN nowTs >= job.runAt[1] /\ \A a \in Fired : firings[a].name # job.name
  ELSE /\ \A a \in Fired :
            firings[a].name = job.name => MinuteBucket(firings[a].now) < MinuteBucket(nowTs)
       /\ (nowTs \div MS_PER_MINUTE) % 5 = 0

\* C31: a job is fired only when it is due by the rule of its kind, the
\* one-time rule for a job with once and runAt and the recurring rule for
\* every other job, and no tick passes a job that is due by that rule
C31_OneTimeRuleNeedsOnceAndRunAt ==
  [][\A t \in Slots :
       /\ LoopMoves(t) =>
            \A m \in PassedOver(t) : ~DueByRule(ListingOf(t)[m], ticks[t].now)
       /\ (LoopMoves(t) /\ ticks'[t].pc = "inject") =>
            DueByRule(ticks'[t].crons[ticks'[t].i], ticks[t].now)]_vars

----------------------------------------------------------------------------
(* The order of the jobs within a tick *)

\* the step in which the invocation of slot t begins to process a job
Begins(t) ==
  /\ Len(firings') = Len(firings) + 1
  /\ ticks'[t].fid = Len(firings')
  /\ ticks'[t].pc \in {"scripts", "inject"}

\* C32: when a tick begins to process a job, every job it has processed
\* before has its delivery settled or timed out and its run record written,
\* and the job stands after them in the listing the tick works on
C32_OneJobAfterAnother ==
  [][\A t \in Slots :
       Begins(t) =>
         /\ \A a \in Fired :
              firings[a].tid = ticks'[t].tid =>
                /\ firings'[a].outcome \in {"resolved", "rejected", "timeout"}
                /\ firings'[a].over
                /\ \E r \in 1..Len(runs') :
                     /\ runs'[r].id \in {firings'[a].records[k] :
                                           k \in 1..Len(firings'[a].records)}
                     /\ runs'[r].cronName = firings[a].name
         /\ ticks[t].pc \in {"record", "recordFailure"} =>
              /\ ticks'[t].crons = ticks[t].crons
              /\ ticks'[t].i > ticks[t].i]_vars

\* a tick has processed one job and is delivering the next of its listing
C32_SecondJobOfATick ==
  \E t \in Slots :
    /\ ticks[t].pc = "inject"
    /\ \E a \in Fired :
         /\ firings[a].tid = ticks[t].tid /\ a # ticks[t].fid
         /\ firings[a].name # ticks[t].crons[ticks[t].i].name

----------------------------------------------------------------------------
(* The removals of a tick *)

\* the step takes a job out of the store and is none of the administration
TickRemoves == adminOps' = adminOps /\ NamesOf(jobs') # NamesOf(jobs)

\* C33: a tick takes a job out of the store only after its loop has gone
\* through its whole listing, so that no job of the listing is still due and
\* the tick begins no job afterwards, and the job it takes out has the name
\* of a job with the once flag that this tick has fired and delivered; the
\* other jobs stay
C33_RemovalsAfterTheLoop ==
  [][/\ TickRemoves =>
          \E t \in Slots :
            /\ ticks[t].pc = "remove"
            /\ ticks'[t].pc \in {"remove", "idle"}
            /\ DueFrom(ticks[t].crons, 1, ticks[t].now, lastRun) = {}
            /\ \A k \in 1..Len(jobs) :
                 IF jobs[k].name \in NamesOf(jobs')
                 THEN \E m \in 1..Len(jobs') : jobs'[m] = jobs[k]
                 ELSE \E a \in Fired :
                        /\ firings[a].tid = ticks[t].tid
                        /\ firings[a].name = jobs[k].name
                        /\ firings[a].job.once
                        /\ firings[a].outcome = "resolved" /\ firings[a].over
     /\ \A t \in Slots : Begins(t) => ticks[t].pc # "remove"]_vars

\* the tick that delivered the one-time job has taken it out of the store and
\* has ended, and the recurring job is still there
C33_OneTimeJobRemovedAtTheEnd ==
  /\ adminOps = 0
  /\ NamesOf(jobs) = {"beat"}
  /\ \E a \in Fired : firings[a].name = "once-1" /\ firings[a].outcome = "resolved"
  /\ \A t \in Slots : ticks[t].pc = "idle"

----------------------------------------------------------------------------
(* The race of the delivery against the job timeout: the tick loop with the
   delivery that lost to the timeout settling afterwards *)

MaxRaceFirings == 11

\* the promise of ctx.inject settles after the timeout has won the race:
\* Promise.race (line 237) has taken its result and its error, and nothing
\* follows
LateDelivery ==
  /\ \E a \in Fired :
       /\ firings[a].outcome = "timeout"
       /\ ~firings[a].late
       /\ firings' = [firings EXCEPT ![a].late = TRUE]
  /\ UNCHANGED <<tickInterval, timers, probe, clock, timerFirings, jobs, runs, idCount, cfg,
                 lastRun, ticks, tickCount, ended, adminOps, storeFaults>>

TimerFireRace == TimerFires(MaxRaceFirings)

NextRace ==
  \/ TimerFireRace
  \/ \E t \in Slots : TickStep(t)
  \/ LateDelivery

SpecRace == Init /\ [][NextRace]_vars

\* C34: once the processing of a job is over its timeout timer is cleared,
\* whether the delivery resolved, rejected or lost to the timeout; and when
\* the delivery settles after the timeout has won, no run record is added,
\* no tick ends by rejecting, and the firing keeps its one record
C34_NoTimerLeftNoSecondRecord ==
  /\ [](\A a \in Fired :
          /\ firings[a].over => firings[a].timer = "cleared"
          /\ Len(firings[a].records) <= 1
          /\ firings[a].late => firings[a].outcome = "timeout")
  /\ [](\A e \in ended : e.how = "resolved")
  /\ [][\A a \in Fired :
          firings'[a].late # firings[a].late =>
            runs' = runs /\ ended' = ended /\ ticks' = ticks /\ jobs' = jobs]_vars

\* the timeout has won, the failure record is written, and the delivery has
\* settled afterwards
C34_DeliverySettledAfterTimeout ==
  \E a \in Fired :
    /\ firings[a].outcome = "timeout"
    /\ firings[a].over /\ firings[a].late
    /\ firings[a].timer = "cleared"
    /\ \E r \in 1..Len(runs) : runs[r].id = firings[a].records[1] /\ runs[r].status = "failure"

----------------------------------------------------------------------------
(* The run history under the ticks and the administration *)

\* the ids of the records of a history
IdsOf(history) == {history[r].id : r \in 1..Len(history)}

\* C35: a step of a tick or of addCron and removeCron leaves the history as
\* it is or appends one record to it, whose id is that of no record before;
\* the steps of the administration leave it as it is, and only a tick that
\* awaits addCronRun appends
C35_HistoryOnlyGrows ==
  [][/\ \/ runs' = runs
        \/ /\ Len(runs') = Len(runs) + 1
           /\ SubSeq(runs', 1, Len(runs)) = runs
           /\ runs'[Len(runs')].id \notin IdsOf(runs)
           /\ \E t \in Slots :
                /\ ticks[t].pc \in {"record", "recordFailure"}
                /\ ticks'[t] # ticks[t]
     /\ adminOps' # adminOps => runs' = runs
    ]_vars

\* the history holds three records; the store has changed by the
\* administration and by a tick since the first was written
C35_ThreeRecordsKept ==
  /\ Len(runs) = 3
  /\ adminOps > 0
  /\ "once-1" \notin NamesOf(jobs)
  /\ runs[1].startedAt = 0

----------------------------------------------------------------------------
(* A cancellation while a tick is at work: the store holds two jobs that are
   due in the same ticks, and one removeCron is called at any moment *)

MaxCancelFirings == 3

InitCancel == Start(0, <<JobBeat, JobPipe(<<>>)>>, {"absent"})

TimerFireCancel == TimerFires(MaxCancelFirings)

NextCancel ==
  \/ TimerFireCancel
  \/ \E t \in Slots : GetCronsResolves(t)
  \/ \E t \in Slots : InjectResolves(t)
  \/ \E t \in Slots : InjectRejects(t)
  \/ \E t \in Slots : AddCronRunResolves(t)
  \/ \E name \in {"beat", "pipe"} : RemoveCron(name)

SpecCancel == InitCancel /\ [][NextCancel]_vars

\* C36: a tick begins to process a job only while a job of that name is in
\* the store: once removeCron has taken the name out, no tick delivers the
\* job, not even one that listed the jobs before
C36_CancelledJobNotDelivered ==
  [][\A t \in Slots :
       Begins(t) => ticks'[t].crons[ticks'[t].i].name \in NamesOf(jobs)]_vars

----------------------------------------------------------------------------
(* A name used again *)

\* C37: a tick that lists the jobs while no other tick is at work fires every
\* one-time job of the store whose runAt is reached, when every earlier
\* firing under the job's name was delivered and so ended with the removal of
\* the job it fired: the job in the store is then a new one, and the marker
\* the removed job left does not hold it back
C37_NewJobUnderAnOldName ==
  [][\A t \in Slots :
       (/\ ticks[t].pc = "list"
        /\ LoopMoves(t)
        /\ \A u \in Slots \ {t} : ticks[u].pc = "idle")
         => \A n \in PassedOver(t) :
              ~(/\ OneTime(jobs[n])
                /\ ticks[t].now >= jobs[n].runAt[1]
                /\ \A a \in Fired :
                     firings[a].name = jobs[n].name
                       => firings[a].outcome = "resolved" /\ firings[a].over)]_vars

----------------------------------------------------------------------------
(* The interval timers of the process *)

\* C38: whatever init and shutdown calls have been made, at most one interval
\* timer is set, and none is set when the last call was a shutdown
C38_AtMostOneTimer ==
  /\ Cardinality(timers) <= 1
  /\ (probe.op = "shutdown" => timers = {})

----------------------------------------------------------------------------
(* Clearing the history: the runs table holds up to MaxRuns records of two
   jobs in two sessions, and clearCronHistory is called once *)

MaxRuns == 3

HistoryNames == {"beat", "pipe"}
HistorySessions == {"main", "side"}

\* the option name, and the option session, of a call: absent or given
NameOptions == {None} \cup {Some(name) : name \in HistoryNames}
SessionOptions == {None} \cup {Some(session) : session \in HistorySessions}

\* the run record with the id k of a delivered run of a job in a session
RunOf(k, name, session) ==
  [id |-> k, cronName |-> name, session |-> session, startedAt |-> 0,
   status |-> "success", durationMs |-> 0, error |-> None,
   message |-> <<"h", "i">>, scriptResults |-> None]

\* a filter of the runs table: equality on each column that is given
Matches(row, filter) ==
  /\ Present(filter.cronName) => row.cronName = filter.cronName[1]
  /\ Present(filter.session) => row.session = filter.session[1]

\* deleteMany(filter) on the rows of a table: the rows left, and the number
\* of rows deleted
RepoDeleteMany(rows, filter) == SelectSeq(rows, LAMBDA row : ~Matches(row, filter))
RepoDeletedMany(rows, filter) == Len(rows) - Len(RepoDeleteMany(rows, filter))

\* the filter clearCronHistory hands to deleteMany: the name if it is given,
\* else the session if it is given, else the empty filter
ClearFilter(options) ==
  IF Present(options.name) THEN [cronName |-> options.name, session |-> None]
  ELSE IF Present(options.session) THEN [cronName |-> None, session |-> options.session]
  ELSE [cronName |-> None, session |-> None]

InitHistory ==
  \E n \in 0..MaxRuns :
    \E shape \in [1..n -> HistoryNames \X HistorySessions] :
      \E name \in NameOptions, session \in SessionOptions :
        /\ runs = [k \in 1..n |-> RunOf(k, shape[k][1], shape[k][2])]
        /\ idCount = n
        /\ probe = [op |-> "clearCronHistory", name |-> name, session |-> session,
                    before |-> runs, returned |-> FALSE, result |-> 0]
        /\ clock = 0
        /\ timerFirings = 0
        /\ jobs = <<>>
        /\ cfg = "absent"
        /\ lastRun = [j \in JobNames |-> 0]
        /\ ticks = [t \in Slots |-> Idle]
        /\ tickCount = 0
        /\ firings = <<>>
        /\ ended = {}
        /\ adminOps = 0
        /\ storeFaults = 0
        /\ tickInterval = 0
        /\ timers = {}

\* clearCronHistory(options) and the number it resolves with
CallClearCronHistory ==
  /\ probe.op = "clearCronHistory"
  /\ ~probe.returned
  /\ \E filter \in {ClearFilter(probe)} :
       /\ runs' = RepoDeleteMany(runs, filter)
       /\ probe' = [probe EXCEPT !.returned = TRUE,
                                 !.result = RepoDeletedMany(runs, filter)]
  /\ UNCHANGED <<clock, timerFirings, jobs, idCount, cfg, lastRun, ticks, tickCount,
                 firings, ended, adminOps, storeFaults, tickInterval, timers>>

NextHistory == CallClearCronHistory

SpecHistory == InitHistory /\ [][NextHistory]_vars

\* the records of the history that match every option of the call
Chosen(row) ==
  /\ Present(probe.name) => row.cronName = probe.name[1]
  /\ Present(probe.session) => row.session = probe.session[1]

\* C39: clearCronHistory deletes the run records that match every option
\* given, the name and the session, leaves the others as they were and in
\* their order, and returns the number of records it deleted
C39_DeletesWhatEveryOptionMatches ==
  Returned("clearCronHistory") =>
    /\ runs = SelectSeq(probe.before, LAMBDA row : ~Chosen(row))
    /\ probe.result = Len(probe.before) - Len(runs)

\* with one option or none the call does as stated
C39_OneOptionOrNone ==
  (Returned("clearCronHistory") /\ ~(Present(probe.name) /\ Present(probe.session))) =>
    /\ runs = SelectSeq(probe.before, LAMBDA row : ~Chosen(row))
    /\ probe.result = Len(probe.before) - Len(runs)

----------------------------------------------------------------------------
(* Placeholders in the output of a script *)

\* part stands somewhere in text
Within(text, part) ==
  \E k \in 1..(Len(text) - Len(part) + 1) : SubSeq(text, k, k + Len(part) - 1) = part

\* C40: when the message asks for the output of one result, and that output
\* holds the placeholder of another result of the call, the placeholder is
\* in the resolved message as the script wrote it
C40_OutputStaysLiteral ==
  (Returned("resolveScriptTemplates") /\ DistinctNames(probe.results)) =>
    \A j, k \in 1..Len(probe.results) :
      (/\ j # k
       /\ \E n \in 1..Len(probe.pieces) : probe.pieces[n] = Placeholder(probe.results[j])
       /\ Within(probe.results[j].stdout, Placeholder(probe.results[k])))
        => Within(probe.result, Placeholder(probe.results[k]))

====
